---------------------------- MODULE Spec2Model ----------------------------
(***************************************************************************)
(* Model of the constrained multi-stage reasoning layer of NeuroChorno     *)
(* (src/Modules/Module2/reasoning_engine.py): the stage executor with its  *)
(* retry loop, the validators, the deterministic fallback and the stage    *)
(* sequencer.                                                              *)
(*                                                                         *)
(* Texts are strings.  A float is an integer number of 10^-4 units (so     *)
(* -4.2 is -42000 and the tolerance 0.05 is 500); an int is itself.  A     *)
(* JSON value is a tagged record [t, v]; a dict is the sequence of its     *)
(* [k, v] items in insertion order.                                        *)
(***************************************************************************)
EXTENDS Integers, Sequences, FiniteSets, TLC

(***************************************************************************)
(* Characters and strings (Python str operations).                         *)
(***************************************************************************)
Char(s, i) == SubSeq(s, i, i)

UPPER == "ABCDEFGHIJKLMNOPQRSTUVWXYZ"
LOWER == "abcdefghijklmnopqrstuvwxyz"
DIGITS == "0123456789"

IsDigit(c) == \E d \in 1..10 : Char(DIGITS, d) = c

DigitVal(c) == (CHOOSE d \in 1..10 : Char(DIGITS, d) = c) - 1

\* str.lower() on one character (ASCII letters).
LowerChar(c) ==
    IF \E u \in 1..26 : Char(UPPER, u) = c
    THEN Char(LOWER, CHOOSE u \in 1..26 : Char(UPPER, u) = c)
    ELSE c

\* text.lower(): the sequence of the lowered characters of text.
lower(text) == [i \in 1..Len(text) |-> LowerChar(Char(text, i))]

\* `term in chars` for a sequence of characters chars and a string term.
TermInChars(term, chars) ==
    \E i \in 1..(Len(chars) - Len(term) + 1) :
        \A j \in 1..Len(term) : chars[i + j - 1] = Char(term, j)

\* `sub in text` for two strings.
StrIn(sub, text) ==
    \E i \in 1..(Len(text) - Len(sub) + 1) :
        SubSeq(text, i, i + Len(sub) - 1) = sub

\* a.lower() == b.lower()
LowerEq(a, b) ==
    /\ Len(a) = Len(b)
    /\ \A i \in 1..Len(a) : LowerChar(Char(a, i)) = LowerChar(Char(b, i))

\* text.find(c) and text.rfind(c) for a one-character c; 0 stands for -1.
Find(text, c) ==
    IF \E i \in 1..Len(text) : Char(text, i) = c
    THEN CHOOSE i \in 1..Len(text) :
            /\ Char(text, i) = c
            /\ \A j \in 1..(i - 1) : Char(text, j) # c
    ELSE 0

RFind(text, c) ==
    IF \E i \in 1..Len(text) : Char(text, i) = c
    THEN CHOOSE i \in 1..Len(text) :
            /\ Char(text, i) = c
            /\ \A j \in (i + 1)..Len(text) : Char(text, j) # c
    ELSE 0

RECURSIVE Join(_, _)
\* sep.join(parts) for a sequence of strings.
Join(parts, sep) ==
    IF Len(parts) = 0 THEN ""
    ELSE IF Len(parts) = 1 THEN parts[1]
    ELSE parts[1] \o sep \o Join(Tail(parts), sep)

(***************************************************************************)
(* Numbers.  Scale units make one; NUMERIC_TOLERANCE is 0.05.              *)
(***************************************************************************)
Scale == 10 ^ 4

Abs(n) == IF n < 0 THEN -n ELSE n

\* The decimal digits of a natural number below Scale, four of them.
FracDigits(f) ==
    Char(DIGITS, (f \div 1000) + 1) \o Char(DIGITS, ((f \div 100) % 10) + 1)
    \o Char(DIGITS, ((f \div 10) % 10) + 1) \o Char(DIGITS, (f % 10) + 1)

\* Trailing zeros dropped, one digit kept.
StripZeros(ds) ==
    LET keep == CHOOSE n \in 1..Len(ds) :
                    /\ \A j \in (n + 1)..Len(ds) : Char(ds, j) = "0"
                    /\ (n = 1 \/ Char(ds, n) # "0")
    IN  SubSeq(ds, 1, keep)

\* str(x) of a float x (Python's shortest repr, fixed notation).
FloatStr(x) ==
    (IF x < 0 THEN "-" ELSE "")
    \o ToString(Abs(x) \div Scale) \o "." \o StripZeros(FracDigits(Abs(x) % Scale))

\* str(n) of an int n.
IntStr(n) == ToString(n)

\* float(n) of an int n.
IntToFloat(n) == n * Scale

\* int(x) of a float x: truncation toward zero.
FloatToInt(x) == IF x < 0 THEN -((-x) \div Scale) ELSE x \div Scale

\* round(x, 3) of a float x (a tie goes to the even neighbour).
Round3(x) ==
    LET q == x \div 10
        r == x % 10
    IN  IF r < 5 THEN q * 10
        ELSE IF r > 5 THEN (q + 1) * 10
        ELSE IF q % 2 = 0 THEN q * 10 ELSE (q + 1) * 10


RECURSIVE NatVal(_)
\* The value of a string of decimal digits.
NatVal(ds) ==
    IF Len(ds) = 0 THEN 0
    ELSE NatVal(SubSeq(ds, 1, Len(ds) - 1)) * 10 + DigitVal(Char(ds, Len(ds)))

\* float(tok) of a token -?digits[.digits]; decimals beyond the fourth are
\* below the resolution of the model and are dropped.
TokenFloat(tok) ==
    LET neg  == Char(tok, 1) = "-"
        body == IF neg THEN SubSeq(tok, 2, Len(tok)) ELSE tok
        dot  == Find(body, ".")
        ip   == IF dot = 0 THEN body ELSE SubSeq(body, 1, dot - 1)
        fp   == IF dot = 0 THEN "" ELSE SubSeq(body, dot + 1, Len(body))
        fp4  == SubSeq(fp \o "0000", 1, 4)
        mag  == NatVal(ip) * Scale + NatVal(fp4)
    IN  IF neg THEN -mag ELSE mag

(***************************************************************************)
(* Binary floating point.  A Python float is an IEEE double: float(x) of   *)
(* a decimal x = n / 10^4 is the multiple of 2^-k nearest to x, for the k  *)
(* that gives it 53 significant bits.  Its distance from x is a whole      *)
(* number of units of 1 / (10^4 * 2^k), which modular arithmetic gives     *)
(* without ever writing the double down.                                   *)
(***************************************************************************)
\* 2^k modulo m for k < 90 and m < 2^15, as the product of three powers
\* that fit a machine integer.
Pow2Mod(k, m) ==
    (((((2 ^ (k \div 3)) % m) * ((2 ^ (k \div 3)) % m)) % m)
        * ((2 ^ (k - 2 * (k \div 3))) % m)) % m

\* The k for which 2^52 <= (n / 10^4) * 2^k < 2^53, for 0 < n < 2^10 * 10^4.
SignificandShift(n) ==
    IF n >= Scale
    THEN 52 - (CHOOSE e \in 0..9 : (2 ^ e) * Scale <= n /\ n < (2 ^ (e + 1)) * Scale)
    ELSE 52 + (CHOOSE e \in 1..14 : Scale <= n * (2 ^ e) /\ n * (2 ^ e) < 2 * Scale)

\* The double nearest to sign * n / 10^4, given its shift k and
\* low = (n * 2^k) modulo (2 * 10^4): the significand is n * 2^k / 10^4
\* rounded to the nearest natural (a tie cannot be, 2^k being a multiple of
\* 16 and 5000 not one of 8).  err is the double less the decimal, in units
\* of 1 / (10^4 * 2^k); odd tells whether the significand is odd.
Rounded(sign, k, low) ==
    IF 2 * (low % Scale) < Scale
    THEN [shift |-> k, err |-> -sign * (low % Scale), odd |-> low >= Scale]
    ELSE [shift |-> k, err |-> sign * (Scale - (low % Scale)), odd |-> low < Scale]

\* float(x) for x in units of 10^-4.
DoubleRounding(x) ==
    IF x = 0 THEN [shift |-> 0, err |-> 0, odd |-> FALSE]
    ELSE CHOOSE r \in UNION {{Rounded(IF x < 0 THEN -1 ELSE 1, k, low) :
                                low \in {(((Abs(x)) % (2 * Scale)) * Pow2Mod(k, 2 * Scale))
                                            % (2 * Scale)}} :
                             k \in {SignificandShift(Abs(x))}} : TRUE

\* abs(float(a) - float(b)) <= float(tol), given the three doubles, for
\* |a - b| = tol and tol not a power of two.  The difference of the two
\* doubles is tol plus the difference of their rounding errors; IEEE
\* subtraction rounds it to a double of the size of tol, to the nearest with
\* a tie to the even significand, and that is at most float(tol) when it
\* exceeds float(tol) by less than half a step of the doubles of that size
\* (or by half a step, the significand of float(tol) being even).  finest is
\* the largest of the three shifts.
BoundaryClose(da, db, dt, greater, finest) ==
    \E excess \in {(IF greater THEN 1 ELSE -1)
                        * ((IF da.err = 0 THEN 0 ELSE da.err * 2 ^ (finest - da.shift))
                           - (IF db.err = 0 THEN 0 ELSE db.err * 2 ^ (finest - db.shift)))
                   - dt.err * 2 ^ (finest - dt.shift)} :
        \/ 2 * excess < Scale * 2 ^ (finest - dt.shift)
        \/ 2 * excess = Scale * 2 ^ (finest - dt.shift) /\ ~dt.odd

\* abs(a - b) <= tol in doubles.  Away from the boundary the decimals
\* decide; on it the rounding of the doubles does.
DoubleClose(a, b, tol) ==
    \E x \in {a} : \E y \in {b} :
        IF Abs(x - y) # tol THEN Abs(x - y) < tol
        ELSE \E da \in {DoubleRounding(x)} : \E db \in {DoubleRounding(y)} :
             \E dt \in {DoubleRounding(tol)} :
                BoundaryClose(da, db, dt, x > y,
                              CHOOSE k \in {da.shift, db.shift, dt.shift} :
                                    \A other \in {da.shift, db.shift, dt.shift} : other <= k)

(***************************************************************************)
(* re.findall(r"-?\d+\.?\d+", s): the leftmost, non-overlapping matches.   *)
(***************************************************************************)
\* Length of the maximal run of digits of s that starts at position i.
DigitRun(s, i) ==
    IF i > Len(s) \/ ~IsDigit(Char(s, i)) THEN 0
    ELSE CHOOSE n \in 1..(Len(s) - i + 1) :
            /\ \A j \in i..(i + n - 1) : IsDigit(Char(s, j))
            /\ (i + n > Len(s) \/ ~IsDigit(Char(s, i + n)))

\* Last position of the match that starts at position i, 0 when there is
\* none: an optional minus, digits, an optional dot, digits.  Without
\* ".digits" after the first run the pattern needs two digits of that run.
MatchEnd(s, i) ==
    LET d0 == IF Char(s, i) = "-" THEN i + 1 ELSE i
        n  == DigitRun(s, d0)
        m  == IF n > 0 /\ d0 + n <= Len(s) /\ Char(s, d0 + n) = "."
              THEN DigitRun(s, d0 + n + 1) ELSE 0
    IN  IF n = 0 THEN 0
        ELSE IF m > 0 THEN d0 + n + m
        ELSE IF n >= 2 THEN d0 + n - 1
        ELSE 0

RECURSIVE FindAllFrom(_, _)
FindAllFrom(s, i) ==
    LET starts == {k \in i..Len(s) : MatchEnd(s, k) # 0}
    IN  IF starts = {} THEN <<>>
        ELSE LET k == CHOOSE a \in starts : \A b \in starts : a <= b
                 e == MatchEnd(s, k)
             IN  <<TokenFloat(SubSeq(s, k, e))>> \o FindAllFrom(s, e + 1)

\* The floats of the matches, in order.
findall_numbers(s) == FindAllFrom(s, 1)


(***************************************************************************)
(* Program constants.                                                      *)
(***************************************************************************)
ALLOWED_ROIS ==
    <<"hippocampus", "entorhinal_cortex", "temporal_lobe", "parietal_lobe",
      "ventricles">>

FORBIDDEN_TERMS ==
    <<"alzheimer", "dementia", "mci", "mild cognitive impairment",
      "diagnosis", "will develop">>

MISMATCH_TERMS ==
    <<"discrepancy", "inconsistent", "contradict", "mismatch",
      "does not align", "spatial conflict", "anatomical divergence">>

MAX_RETRY == 2

NUMERIC_TOLERANCE == (5 * Scale) \div 100

NUMERIC_KEYS == <<"annual_percent_change", "z_score">>

\* The required keys without the last.
REQUIRED_TOP_KEYS_three ==
    <<"roi_interpretations", "final_narrative", "classification">>

REQUIRED_TOP_KEYS ==
    <<"roi_interpretations", "final_narrative", "classification",
      "confidence_level">>

REQUIRED_PAYLOAD_KEYS ==
    <<"metadata", "roi_metrics", "progression", "context_images">>

(***************************************************************************)
(* JSON values and Python exceptions.                                      *)
(***************************************************************************)
JNull == [t |-> "null", v |-> 0]
JBool(b) == [t |-> "bool", v |-> b]
JInt(n) == [t |-> "int", v |-> n]
JFloat(x) == [t |-> "float", v |-> x]
JStr(s) == [t |-> "str", v |-> s]
JList(items) == [t |-> "list", v |-> items]
JDict(items) == [t |-> "dict", v |-> items]
Item(key, val) == [k |-> key, v |-> val]

\* key in d, d[key] and d[key] = val for a dict d.
Has(d, key) == \E i \in 1..Len(d.v) : d.v[i].k = key
Get(d, key) == d.v[CHOOSE i \in 1..Len(d.v) : d.v[i].k = key].v
Put(d, key, val) ==
    IF Has(d, key)
    THEN JDict([i \in 1..Len(d.v) |->
                    IF d.v[i].k = key THEN Item(key, val) ELSE d.v[i]])
    ELSE JDict(Append(d.v, Item(key, val)))
\* d.get(key, dflt)
GetOr(d, key, dflt) == IF Has(d, key) THEN Get(d, key) ELSE dflt

NoError == [type |-> "", msg |-> ""]
Exc(type, msg) == [type |-> type, msg |-> msg]
ValueError(msg) == Exc("ValueError", msg)
TypeError(msg) == Exc("TypeError", msg)
KeyError(msg) == Exc("KeyError", msg)

\* The first index in 1..n at which P holds, 0 when there is none.
FirstIdx(n, P(_)) ==
    IF \E i \in 1..n : P(i)
    THEN CHOOSE i \in 1..n : P(i) /\ \A j \in 1..(i - 1) : ~P(j)
    ELSE 0

\* `key in obj` for a JSON value: a dict has the key, a list has the string
\* as an element, a str has it as a substring; anything else is not iterable.
Iterable(obj) == obj.t \in {"dict", "list", "str"}
PyIn(key, obj) ==
    CASE obj.t = "dict" -> Has(obj, key)
      [] obj.t = "list" -> \E i \in 1..Len(obj.v) : obj.v[i] = JStr(key)
      [] obj.t = "str"  -> StrIn(key, obj.v)
      [] OTHER -> FALSE

\* A string float() accepts: an optional minus, digits, optionally a dot and
\* more digits.
IsNumberStr(s) ==
    /\ Len(s) > 0
    /\ LET d0 == IF Char(s, 1) = "-" THEN 2 ELSE 1
           n  == DigitRun(s, d0)
       IN  /\ n > 0
           /\ \/ d0 + n - 1 = Len(s)
              \/ /\ d0 + n < Len(s)
                 /\ Char(s, d0 + n) = "."
                 /\ d0 + n + DigitRun(s, d0 + n + 1) = Len(s)

\* float(j): whether it raises, and its value.
FloatOk(j) ==
    \/ j.t \in {"int", "float", "bool"}
    \/ j.t = "str" /\ IsNumberStr(j.v)
FloatOf(j) ==
    CASE j.t = "int"   -> IntToFloat(j.v)
      [] j.t = "float" -> j.v
      [] j.t = "bool"  -> IF j.v THEN Scale ELSE 0
      [] j.t = "str"   -> TokenFloat(j.v)
FloatErr(j) ==
    IF j.t = "str" THEN ValueError("could not convert string to float")
    ELSE TypeError("float() argument must be a string or a number")

\* int(j): a str must be an integer literal.
IntOk(j) ==
    \/ j.t \in {"int", "float", "bool"}
    \/ j.t = "str" /\ IsNumberStr(j.v) /\ Find(j.v, ".") = 0
IntOf(j) ==
    CASE j.t = "int"   -> j.v
      [] j.t = "float" -> FloatToInt(j.v)
      [] j.t = "bool"  -> IF j.v THEN 1 ELSE 0
      [] j.t = "str"   -> FloatToInt(TokenFloat(j.v))
IntErr(j) ==
    IF j.t = "str" THEN ValueError("invalid literal for int()")
    ELSE TypeError("int() argument must be a string or a number")

\* str(j) of a scalar, as an f-string prints it.
PyStr(j) ==
    CASE j.t = "int"   -> IntStr(j.v)
      [] j.t = "float" -> FloatStr(j.v)
      [] j.t = "str"   -> j.v
      [] j.t = "bool"  -> IF j.v THEN "True" ELSE "False"
      [] j.t = "null"  -> "None"
      [] OTHER -> "<" \o j.t \o ">"


(***************************************************************************)
(* Basic validators.  The payload is a record; a key it lacks is a field   *)
(* it does not have.  Its region metrics and interval are floats, its      *)
(* score and age ints, its texts strings.  A validator's value is the      *)
(* exception it raises, NoError when it returns.                           *)
(***************************************************************************)
validate_payload(payload) ==
    LET miss == FirstIdx(Len(REQUIRED_PAYLOAD_KEYS),
                         LAMBDA i : REQUIRED_PAYLOAD_KEYS[i] \notin DOMAIN payload)
    IN  IF miss = 0 THEN NoError
        ELSE ValueError("Missing payload key: " \o REQUIRED_PAYLOAD_KEYS[miss])

\* check_forbidden_terms without text.lower(): C9 does not hold of it.
check_forbidden_terms_cased(text) ==
    LET hit == FirstIdx(Len(FORBIDDEN_TERMS),
                        LAMBDA i : TermInChars(FORBIDDEN_TERMS[i],
                                               [j \in 1..Len(text) |-> Char(text, j)]))
    IN  IF hit = 0 THEN NoError
        ELSE ValueError("Forbidden medical claim detected: " \o FORBIDDEN_TERMS[hit])

check_forbidden_terms(text) ==
    LET low == lower(text)
        hit == FirstIdx(Len(FORBIDDEN_TERMS),
                        LAMBDA i : TermInChars(FORBIDDEN_TERMS[i], low))
    IN  IF hit = 0 THEN NoError
        ELSE ValueError("Forbidden medical claim detected: " \o FORBIDDEN_TERMS[hit])

RECURSIVE ConcatAll(_)
\* The concatenation of a sequence of sequences.
ConcatAll(ss) == IF Len(ss) = 0 THEN <<>> ELSE Head(ss) \o ConcatAll(Tail(ss))

\* payload["progression"].get("score", 0), .get("rationale", []) and
\* payload["metadata"].get("interval_years", 0.0)
PayloadScore(payload) ==
    IF "score" \in DOMAIN payload.progression THEN payload.progression.score ELSE 0
PayloadRationale(payload) ==
    IF "rationale" \in DOMAIN payload.progression
    THEN payload.progression.rationale ELSE <<>>
PayloadInterval(payload) ==
    IF "interval_years" \in DOMAIN payload.metadata
    THEN payload.metadata.interval_years ELSE 0

\* allowed_numeric_values without the numbers of the rationale strings: C6
\* does not hold of it.
allowed_numeric_values_norationale(payload) ==
    [i \in 1..(2 * Len(ALLOWED_ROIS)) |->
        payload.roi_metrics[ALLOWED_ROIS[(i + 1) \div 2]][NUMERIC_KEYS[2 - (i % 2)]]]
    \o <<IntToFloat(PayloadScore(payload))>>
    \o <<PayloadInterval(payload)>>

\* The ten region metrics, the score, the interval and the numbers that the
\* pattern finds in the rationale strings.
allowed_numeric_values(payload) ==
    [i \in 1..(2 * Len(ALLOWED_ROIS)) |->
        payload.roi_metrics[ALLOWED_ROIS[(i + 1) \div 2]][NUMERIC_KEYS[2 - (i % 2)]]]
    \o <<IntToFloat(PayloadScore(payload))>>
    \o <<PayloadInterval(payload)>>
    \o ConcatAll([i \in 1..Len(PayloadRationale(payload)) |->
                    findall_numbers(PayloadRationale(payload)[i])])

RECURSIVE extract_numbers_from_jsonish(_)
extract_numbers_from_jsonish(obj) ==
    CASE obj.t = "dict" ->
            ConcatAll([i \in 1..Len(obj.v) |-> extract_numbers_from_jsonish(obj.v[i].v)])
      [] obj.t = "list" ->
            ConcatAll([i \in 1..Len(obj.v) |-> extract_numbers_from_jsonish(obj.v[i])])
      [] obj.t \in {"int", "float"} -> <<FloatOf(obj)>>
      [] obj.t = "str" -> findall_numbers(obj.v)
      [] OTHER -> <<>>

\* abs(num - a) <= NUMERIC_TOLERANCE
WithinTolerance(num, a) == DoubleClose(num, a, NUMERIC_TOLERANCE)

\* The first found number that is near no allowed value, as a one-element
\* sequence; the empty sequence stands for None.
numbers_within_allowed(found_nums, allowed) ==
    LET bad == FirstIdx(Len(found_nums),
                        LAMBDA n : ~\E a \in 1..Len(allowed) :
                                        WithinTolerance(found_nums[n], allowed[a]))
    IN  IF bad = 0 THEN <<>> ELSE <<found_nums[bad]>>

\* math.isclose(a, b, rel_tol=0.0, abs_tol=NUMERIC_TOLERANCE)
isclose(a, b) == DoubleClose(a, b, NUMERIC_TOLERANCE)

NotIterable(obj) == TypeError("argument of type '" \o obj.t \o "' is not iterable")
NotSubscriptable(obj) == TypeError("'" \o obj.t \o "' indices must be integers")

\* Lines 146-154 for one numeric key of one region's entry.
NumericKeyCheck(entry, payload, roi, nk) ==
    IF ~Iterable(entry) THEN NotIterable(entry)
    ELSE IF ~PyIn(nk, entry)
    THEN ValueError("Missing numeric key " \o nk \o " for ROI " \o roi)
    ELSE IF roi \notin DOMAIN payload.roi_metrics THEN KeyError(roi)
    ELSE IF nk \notin DOMAIN payload.roi_metrics[roi] THEN KeyError(nk)
    ELSE IF entry.t # "dict" THEN NotSubscriptable(entry)
    ELSE IF ~FloatOk(Get(entry, nk)) THEN FloatErr(Get(entry, nk))
    ELSE LET payload_val == payload.roi_metrics[roi][nk]
         IN  IF ~isclose(FloatOf(Get(entry, nk)), payload_val)
             THEN ValueError("Numeric mismatch for " \o roi \o " " \o nk
                             \o ": reported " \o PyStr(Get(entry, nk))
                             \o " vs payload " \o FloatStr(payload_val))
             ELSE NoError

\* Lines 142-154 for one region.
RoiCheck(roi_block, payload, roi) ==
    IF ~Iterable(roi_block) THEN NotIterable(roi_block)
    ELSE IF ~PyIn(roi, roi_block) THEN ValueError("Missing ROI in final JSON: " \o roi)
    ELSE IF roi_block.t # "dict" THEN NotSubscriptable(roi_block)
    ELSE LET entry == Get(roi_block, roi)
             e1 == NumericKeyCheck(entry, payload, roi, NUMERIC_KEYS[1])
         IN  IF e1.type # "" THEN e1
             ELSE NumericKeyCheck(entry, payload, roi, NUMERIC_KEYS[2])

\* The classification block checked without the comparison of the class.
ClassificationCheck_anyclass(cls, payload) ==
    IF ~Iterable(cls) THEN NotIterable(cls)
    ELSE IF ~PyIn("class", cls) \/ ~PyIn("score", cls) \/ ~PyIn("rationale", cls)
    THEN ValueError("classification block incomplete")
    ELSE IF cls.t # "dict" THEN NotSubscriptable(cls)
    ELSE IF ~IntOk(Get(cls, "score")) THEN IntErr(Get(cls, "score"))
    ELSE IF IntOf(Get(cls, "score")) # PayloadScore(payload)
    THEN ValueError("Classification score mismatch.")
    ELSE NoError

\* Lines 156-166: the classification block.
ClassificationCheck(cls, payload) ==
    IF ~Iterable(cls) THEN NotIterable(cls)
    ELSE IF ~PyIn("class", cls) \/ ~PyIn("score", cls) \/ ~PyIn("rationale", cls)
    THEN ValueError("classification block incomplete")
    ELSE IF "class" \notin DOMAIN payload.progression THEN KeyError("class")
    ELSE IF cls.t # "dict" THEN NotSubscriptable(cls)
    ELSE IF Get(cls, "class").t # "str"
    THEN Exc("AttributeError", "'" \o Get(cls, "class").t \o "' object has no attribute 'lower'")
    ELSE IF ~LowerEq(Get(cls, "class").v, payload.progression.class)
    THEN ValueError("Classification text does not match deterministic classification in payload.")
    ELSE IF ~IntOk(Get(cls, "score")) THEN IntErr(Get(cls, "score"))
    ELSE IF IntOf(Get(cls, "score")) # PayloadScore(payload)
    THEN ValueError("Classification score mismatch.")
    ELSE NoError

\* Lines 168-173: no stray number.
StrayNumberCheck(final_obj, payload) ==
    LET allowed == allowed_numeric_values(payload)
        found_nums == extract_numbers_from_jsonish(final_obj)
        unauthorized == numbers_within_allowed(found_nums, allowed)
    IN  IF unauthorized # <<>>
        THEN ValueError("Unauthorized numeric value detected: " \o FloatStr(unauthorized[1]))
        ELSE NoError

validate_final_json(final_obj, payload) ==
    LET miss == FirstIdx(Len(REQUIRED_TOP_KEYS),
                         LAMBDA i : ~PyIn(REQUIRED_TOP_KEYS[i], final_obj))
    IN  IF ~Iterable(final_obj) THEN NotIterable(final_obj)
        ELSE IF miss # 0
        THEN ValueError("Missing top-level key in final JSON: " \o REQUIRED_TOP_KEYS[miss])
        ELSE IF final_obj.t # "dict" THEN NotSubscriptable(final_obj)
        ELSE LET roi_block == Get(final_obj, "roi_interpretations")
                 bad == FirstIdx(Len(ALLOWED_ROIS),
                                 LAMBDA i : RoiCheck(roi_block, payload, ALLOWED_ROIS[i]).type # "")
                 e3 == ClassificationCheck(Get(final_obj, "classification"), payload)
             IN  IF bad # 0 THEN RoiCheck(roi_block, payload, ALLOWED_ROIS[bad])
                 ELSE IF e3.type # "" THEN e3
                 ELSE StrayNumberCheck(final_obj, payload)


(***************************************************************************)
(* JSON text.  A model response is a record [pre, body, post]: its         *)
(* text is pre, then the text of body, then post, where body is a JSON     *)
(* value or raw text ([t |-> "raw"]).  json.loads of a piece of that text  *)
(* succeeds exactly when the piece is, up to surrounding blanks, the text  *)
(* of the JSON body (pre and post are prose, never JSON themselves).       *)
(***************************************************************************)
Raw(s) == [t |-> "raw", v |-> s]

RECURSIVE dumps(_)
\* The JSON text of a value, as json.dumps writes it.
dumps(j) ==
    CASE j.t = "dict" ->
            "{" \o Join([i \in 1..Len(j.v) |->
                            "\"" \o j.v[i].k \o "\": " \o dumps(j.v[i].v)], ", ") \o "}"
      [] j.t = "list" ->
            "[" \o Join([i \in 1..Len(j.v) |-> dumps(j.v[i])], ", ") \o "]"
      [] j.t = "str"   -> "\"" \o j.v \o "\""
      [] j.t = "int"   -> IntStr(j.v)
      [] j.t = "float" -> FloatStr(j.v)
      [] j.t = "bool"  -> IF j.v THEN "true" ELSE "false"
      [] j.t = "null"  -> "null"

BodyText(body) == IF body.t = "raw" THEN body.v ELSE dumps(body)

ResponseText(r) == r.pre \o BodyText(r.body) \o r.post

IsBlank(c) == c \in {" ", "\n", "\t"}

\* text.strip()
Strip(text) ==
    IF \A i \in 1..Len(text) : IsBlank(Char(text, i)) THEN ""
    ELSE LET a == CHOOSE i \in 1..Len(text) :
                    ~IsBlank(Char(text, i)) /\ \A j \in 1..(i - 1) : IsBlank(Char(text, j))
             b == CHOOSE i \in 1..Len(text) :
                    ~IsBlank(Char(text, i)) /\ \A j \in (i + 1)..Len(text) : IsBlank(Char(text, j))
         IN  SubSeq(text, a, b)

\* json.loads(text) for a piece text of the response r: whether it returns,
\* and what.
LoadsOk(text, r) == r.body.t # "raw" /\ Strip(text) = dumps(r.body)
Loads(text, r) == r.body

\* The braces of candidate up to position i: opened minus closed.
BraceDepth(candidate, i) ==
    Cardinality({j \in 1..i : Char(candidate, j) = "{"})
    - Cardinality({j \in 1..i : Char(candidate, j) = "}"})

\* From the first "{" to the last "}".  The scan pushes on "{" and pops on
\* "}": it gives up when it would pop an empty stack (the depth would fall
\* below zero) or when the stack is not empty at the end.  "" stands for
\* None.
extract_json_substring(text) ==
    LET start == Find(text, "{")
        end   == RFind(text, "}")
    IN  IF start = 0 \/ end = 0 \/ end <= start THEN ""
        ELSE LET candidate == SubSeq(text, start, end)
                 closes == {i \in 1..Len(candidate) : Char(candidate, i) = "}"}
             IN  IF \E i \in closes : BraceDepth(candidate, i) < 0 THEN ""
                 ELSE IF BraceDepth(candidate, Len(candidate)) # 0 THEN ""
                 ELSE candidate

\* Lines 283-295: the parsed value, JNull standing for None.
ParseResponse(r) ==
    LET response == ResponseText(r)
    IN  IF LoadsOk(response, r) THEN Loads(response, r)
        ELSE LET candidate == extract_json_substring(response)
             IN  IF candidate # "" /\ LoadsOk(candidate, r)
                 THEN Loads(candidate, r)
                 ELSE JNull

(***************************************************************************)
(* Deterministic fallback generator.                                       *)
(***************************************************************************)
UpperChar(c) ==
    IF \E u \in 1..26 : Char(LOWER, u) = c
    THEN Char(UPPER, CHOOSE u \in 1..26 : Char(LOWER, u) = c)
    ELSE c

IsLetter(c) == \E u \in 1..26 : Char(LOWER, u) = c \/ Char(UPPER, u) = c

RECURSIVE TitleFrom(_, _)
\* roi.replace('_', ' ').title(), from position i on.
TitleFrom(roi, i) ==
    IF i > Len(roi) THEN ""
    ELSE LET c == IF Char(roi, i) = "_" THEN " " ELSE Char(roi, i)
             first == i = 1 \/ ~IsLetter(Char(roi, i - 1))
         IN  (IF first THEN UpperChar(c) ELSE LowerChar(c)) \o TitleFrom(roi, i + 1)

RoiTitle(roi) == TitleFrom(roi, 1)

FALLBACK_NARRATIVE ==
    "Deterministic fallback narrative synthesized from validated numeric payload. "
    \o "ROI interpretations produced programmatically to ensure numeric integrity."

\* The exception the fallback raises on a payload that lacks what it reads.
FallbackError(payload) ==
    LET badRoi == FirstIdx(Len(ALLOWED_ROIS),
                    LAMBDA i : \/ ALLOWED_ROIS[i] \notin DOMAIN payload.roi_metrics
                               \/ \E nk \in {"annual_percent_change", "z_score"} :
                                     nk \notin DOMAIN payload.roi_metrics[ALLOWED_ROIS[i]])
    IN  IF badRoi # 0
        THEN IF ALLOWED_ROIS[badRoi] \notin DOMAIN payload.roi_metrics
             THEN KeyError(ALLOWED_ROIS[badRoi])
             ELSE IF "annual_percent_change" \notin DOMAIN payload.roi_metrics[ALLOWED_ROIS[badRoi]]
                  THEN KeyError("annual_percent_change") ELSE KeyError("z_score")
        ELSE IF "class" \notin DOMAIN payload.progression THEN KeyError("class")
        ELSE NoError

\* FallbackRoiEntry rounding to whole numbers: C1 does not hold of it.
FallbackRoiEntry_whole(payload, roi) ==
    LET apc == IntToFloat(FloatToInt(payload.roi_metrics[roi].annual_percent_change))
        z   == IntToFloat(FloatToInt(payload.roi_metrics[roi].z_score))
        interp == RoiTitle(roi) \o ": annual change " \o FloatStr(apc)
                  \o "% per year (Z = " \o FloatStr(z) \o ")."
    IN  JDict(<<Item("annual_percent_change", JFloat(apc)),
                Item("z_score", JFloat(z)),
                Item("interpretation", JStr(interp))>>)

\* FallbackRoiEntry without the rounding: C18 does not hold of it.
FallbackRoiEntry_unrounded(payload, roi) ==
    LET apc == payload.roi_metrics[roi].annual_percent_change
        z   == payload.roi_metrics[roi].z_score
        interp == RoiTitle(roi) \o ": annual change " \o FloatStr(apc)
                  \o "% per year (Z = " \o FloatStr(z) \o ")."
    IN  JDict(<<Item("annual_percent_change", JFloat(apc)),
                Item("z_score", JFloat(z)),
                Item("interpretation", JStr(interp))>>)

FallbackRoiEntry(payload, roi) ==
    LET apc == Round3(payload.roi_metrics[roi].annual_percent_change)
        z   == Round3(payload.roi_metrics[roi].z_score)
        interp == RoiTitle(roi) \o ": annual change " \o FloatStr(apc)
                  \o "% per year (Z = " \o FloatStr(z) \o ")."
    IN  JDict(<<Item("annual_percent_change", JFloat(apc)),
                Item("z_score", JFloat(z)),
                Item("interpretation", JStr(interp))>>)

\* The report with the text of stage 2 quoted in the narrative: C19 does
\* not hold of it.
deterministic_fallback_quoting(payload, stage1, stage2, stage3) ==
    JDict(<<
        Item("roi_interpretations",
             JDict([i \in 1..Len(ALLOWED_ROIS) |->
                        Item(ALLOWED_ROIS[i], FallbackRoiEntry(payload, ALLOWED_ROIS[i]))])),
        Item("final_narrative", JStr(FALLBACK_NARRATIVE \o " " \o stage2)),
        Item("classification",
             JDict(<<Item("class", JStr(payload.progression.class)),
                     Item("score", JInt(PayloadScore(payload))),
                     Item("rationale",
                          JList([i \in 1..Len(PayloadRationale(payload)) |->
                                    JStr(PayloadRationale(payload)[i])]))>>)),
        Item("confidence_level", JStr("Low (fallback)")),
        Item("warning_flag", JNull),
        Item("repair_attempted", JBool(TRUE)),
        Item("fallback_used", JBool(TRUE))>>)

\* The report; stage1, stage2 and stage3 are taken and not used.
deterministic_fallback(payload, stage1, stage2, stage3) ==
    JDict(<<
        Item("roi_interpretations",
             JDict([i \in 1..Len(ALLOWED_ROIS) |->
                        Item(ALLOWED_ROIS[i], FallbackRoiEntry(payload, ALLOWED_ROIS[i]))])),
        Item("final_narrative", JStr(FALLBACK_NARRATIVE)),
        Item("classification",
             JDict(<<Item("class", JStr(payload.progression.class)),
                     Item("score", JInt(PayloadScore(payload))),
                     Item("rationale",
                          JList([i \in 1..Len(PayloadRationale(payload)) |->
                                    JStr(PayloadRationale(payload)[i])]))>>)),
        Item("confidence_level", JStr("Low (fallback)")),
        Item("warning_flag", JNull),
        Item("repair_attempted", JBool(TRUE)),
        Item("fallback_used", JBool(TRUE))>>)


(***************************************************************************)
(* Upstream: the classification rules (step 4) and the payload builder     *)
(* (step 5), which make the payloads a pipeline run hands to the layer.    *)
(***************************************************************************)
RECURSIVE SumPts(_)
SumPts(rules) == IF Len(rules) = 0 THEN 0 ELSE Head(rules).pts + SumPts(Tail(rules))

Rule(hit, pts, text) == [hit |-> hit, pts |-> pts, text |-> text]
IsHit(rule) == rule.hit

classify_progression(z_scores) ==
    LET rules == <<
            Rule(z_scores["hippocampus"].z_score < -2 * Scale, 2,
                 "Hippocampal atrophy Z < -2.0"),
            Rule(z_scores["entorhinal_cortex"].z_score < -(15 * Scale) \div 10, 1,
                 "Entorhinal atrophy Z < -1.5"),
            Rule(z_scores["temporal_lobe"].z_score < -(15 * Scale) \div 10, 1,
                 "Temporal lobe atrophy Z < -1.5"),
            Rule(z_scores["parietal_lobe"].z_score < -(15 * Scale) \div 10, 1,
                 "Parietal lobe atrophy Z < -1.5"),
            Rule(z_scores["ventricles"].z_score > 2 * Scale, 1,
                 "Ventricular expansion Z > +2.0"),
            Rule(z_scores["hippocampus"].annual_percent_change < -(35 * Scale) \div 10, 2,
                 "Hippocampal annual atrophy < -3.5%")>>
        fired == SelectSeq(rules, IsHit)
        score == SumPts(fired)
    IN  [progression_class |-> IF score >= 4 THEN "Fast Progressor" ELSE "Normal Progression",
         score |-> score,
         rationale |-> [i \in 1..Len(fired) |-> fired[i].text]]

build_intelligence_payload(interval_years, z_scores, step4_output, age, sex, context_images) ==
    [metadata |-> [age |-> age, sex |-> sex, interval_years |-> Round3(interval_years)],
     roi_metrics |->
        [roi \in {ALLOWED_ROIS[i] : i \in 1..Len(ALLOWED_ROIS)} |->
            [annual_percent_change |-> Round3(z_scores[roi].annual_percent_change),
             z_score |-> Round3(z_scores[roi].z_score)]],
     progression |-> [class |-> step4_output.progression_class,
                      score |-> step4_output.score,
                      rationale |-> step4_output.rationale],
     context_images |-> [jacobian_overlay |-> context_images.jacobian_overlay,
                         t1_followup_slice |-> context_images.t1_followup_slice]]

\* The checks build_intelligence_payload runs before it constructs the
\* payload (payload_builder.py, lines 23-61), each giving the exception it
\* raises, NoError when it passes.
REQUIRED_ROIS ==
    <<"hippocampus", "entorhinal_cortex", "temporal_lobe", "parietal_lobe", "ventricles">>

validate_step2(step2) ==
    IF "roi_metrics" \notin DOMAIN step2
    THEN ValueError("Step 2 output missing 'roi_metrics'.")
    ELSE IF "interval_years" \notin DOMAIN step2
    THEN ValueError("Step 2 output missing 'interval_years'.")
    ELSE NoError

\* Lines 34-39, for one region.
Step3RoiError(z_scores, roi) ==
    IF roi \notin DOMAIN z_scores THEN ValueError("Missing ROI in Step 3: " \o roi)
    ELSE IF "z_score" \notin DOMAIN z_scores[roi]
    THEN ValueError("Missing z_score for ROI: " \o roi)
    ELSE IF "annual_percent_change" \notin DOMAIN z_scores[roi]
    THEN ValueError("Missing annual_percent_change for ROI: " \o roi)
    ELSE NoError

validate_step3(step3) ==
    IF "z_scores" \notin DOMAIN step3 THEN ValueError("Step 3 output missing 'z_scores'.")
    ELSE LET bad == FirstIdx(Len(REQUIRED_ROIS),
                             LAMBDA i : Step3RoiError(step3.z_scores, REQUIRED_ROIS[i]) # NoError)
         IN  IF bad = 0 THEN NoError ELSE Step3RoiError(step3.z_scores, REQUIRED_ROIS[bad])

validate_step4(step4) ==
    IF "progression_class" \notin DOMAIN step4
    THEN ValueError("Step 4 output missing 'progression_class'.")
    ELSE IF "score" \notin DOMAIN step4 THEN ValueError("Step 4 output missing 'score'.")
    ELSE IF "rationale" \notin DOMAIN step4 THEN ValueError("Step 4 output missing 'rationale'.")
    ELSE NoError

CONTEXT_IMAGE_KEYS == <<"jacobian_overlay", "t1_followup_slice">>

\* validate_context_images without the Path.exists() test of line 58: C21
\* does not hold of it.
validate_context_images_keysonly(context_images, files) ==
    LET bad == FirstIdx(Len(CONTEXT_IMAGE_KEYS),
                        LAMBDA i : CONTEXT_IMAGE_KEYS[i] \notin DOMAIN context_images)
    IN  IF bad = 0 THEN NoError
        ELSE ValueError("Missing required context image: " \o CONTEXT_IMAGE_KEYS[bad])

\* Lines 51-61; files is the set of paths that exist.
validate_context_images(context_images, files) ==
    LET bad == FirstIdx(Len(CONTEXT_IMAGE_KEYS),
                        LAMBDA i : \/ CONTEXT_IMAGE_KEYS[i] \notin DOMAIN context_images
                                   \/ context_images[CONTEXT_IMAGE_KEYS[i]] \notin files)
    IN  IF bad = 0 THEN NoError
        ELSE IF CONTEXT_IMAGE_KEYS[bad] \notin DOMAIN context_images
        THEN ValueError("Missing required context image: " \o CONTEXT_IMAGE_KEYS[bad])
        ELSE Exc("FileNotFoundError",
                 "Context image not found: " \o context_images[CONTEXT_IMAGE_KEYS[bad]])

\* Lines 78-88: the first of the four checks that fails.
BuilderError(outputs) ==
    LET checks == <<validate_step2(outputs.step2), validate_step3(outputs.step3),
                    validate_step4(outputs.step4),
                    validate_context_images(outputs.context_images, outputs.files)>>
        bad == FirstIdx(Len(checks), LAMBDA i : checks[i] # NoError)
    IN  IF bad = 0 THEN NoError ELSE checks[bad]


(***************************************************************************)
(* The payloads of the model.  Two come out of the payload builder (a fast *)
(* progressor, with a measurement that the builder rounds, and a normal    *)
(* one without rationale); one is handed in directly with four-decimal     *)
(* metrics (the scenario of the specification); two are malformed: one     *)
(* lacks a region, one lacks a top-level key.                              *)
(***************************************************************************)
Metrics(apc, z) == [annual_percent_change |-> apc, z_score |-> z]

ContextImages == [jacobian_overlay |-> "out/jacobian_overlay.png",
                  t1_followup_slice |-> "out/t1_followup_slice.png"]

ScanFast ==
    [hippocampus |-> Metrics(-42000, -23000),
     entorhinal_cortex |-> Metrics(-31000, -18000),
     temporal_lobe |-> Metrics(-12346, -16000),
     parietal_lobe |-> Metrics(-8000, -4000),
     ventricles |-> Metrics(59000, 24000)]

ScanNormal ==
    [hippocampus |-> Metrics(-5000, -3000),
     entorhinal_cortex |-> Metrics(-4000, 2000),
     temporal_lobe |-> Metrics(-3000, 1000),
     parietal_lobe |-> Metrics(-2000, 0),
     ventricles |-> Metrics(11000, 6000)]

PayloadFast ==
    build_intelligence_payload(20000, ScanFast, classify_progression(ScanFast),
                               72, "F", ContextImages)

PayloadNormal ==
    build_intelligence_payload(15004, ScanNormal, classify_progression(ScanNormal),
                               64, "M", ContextImages)

PayloadScenario ==
    [metadata |-> [age |-> 68, sex |-> "M", interval_years |-> 12500],
     roi_metrics |->
        [hippocampus |-> Metrics(-42000, -23000),
         entorhinal_cortex |-> Metrics(-31234, -18766),
         temporal_lobe |-> Metrics(-12000, -9000),
         parietal_lobe |-> Metrics(-7000, -3000),
         ventricles |-> Metrics(21000, 13000)],
     progression |-> [class |-> "Fast Progressor", score |-> 5,
                      rationale |-> <<"Hippocampal atrophy Z < -2.0">>],
     context_images |-> ContextImages]

Without(rec, key) == [k \in (DOMAIN rec) \ {key} |-> rec[k]]

PayloadNoVentricles ==
    [PayloadFast EXCEPT !.roi_metrics = Without(PayloadFast.roi_metrics, "ventricles")]

PayloadNoMetadata == Without(PayloadFast, "metadata")

ValidPayloads == {PayloadFast, PayloadNormal, PayloadScenario}

Payloads == ValidPayloads \cup {PayloadNoVentricles, PayloadNoMetadata}

(***************************************************************************)
(* Prompt builders (Prompts.py).  The fixed prose is cut down to the       *)
(* section headers; what a builder reads of the payload and of the earlier *)
(* stages is kept.                                                         *)
(***************************************************************************)
PresentRois(payload) == SelectSeq(ALLOWED_ROIS, LAMBDA roi : roi \in DOMAIN payload.roi_metrics)

RoiLine(payload, roi) ==
    "- " \o RoiTitle(roi) \o ": " \o FloatStr(payload.roi_metrics[roi].annual_percent_change)
    \o "%/year (Z-Score: " \o FloatStr(payload.roi_metrics[roi].z_score) \o ")"

RoiJson(payload) ==
    JDict([i \in 1..Len(PresentRois(payload)) |->
            Item(PresentRois(payload)[i],
                 JDict(<<Item("annual_percent_change",
                              JFloat(payload.roi_metrics[PresentRois(payload)[i]].annual_percent_change)),
                         Item("z_score",
                              JFloat(payload.roi_metrics[PresentRois(payload)[i]].z_score))>>))])

ProgressionJson(payload) ==
    JDict(<<Item("class", JStr(payload.progression.class)),
            Item("score", JInt(payload.progression.score)),
            Item("rationale", JList([i \in 1..Len(payload.progression.rationale) |->
                                        JStr(payload.progression.rationale[i])]))>>)

build_numeric_prompt(payload) ==
    [text |-> "### STAGE 1: QUANTITATIVE DATA ANALYSIS\n"
              \o "- Age: " \o IntStr(payload.metadata.age)
              \o "\n- Sex: " \o payload.metadata.sex
              \o "\n- Scan Interval: " \o FloatStr(payload.metadata.interval_years) \o " years\n"
              \o Join([i \in 1..Len(PresentRois(payload)) |->
                        RoiLine(payload, PresentRois(payload)[i])], "\n")
              \o "\n- Class: " \o payload.progression.class
              \o "\n- Score: " \o IntStr(payload.progression.score)
              \o "\n- Rules Triggered: " \o Join(payload.progression.rationale, "; "),
     images |-> <<>>,
     stage |-> "stage1"]

build_multimodal_prompt(payload, stage1_output) ==
    [text |-> "### STAGE 2: MULTIMODAL VISUAL VALIDATION\n"
              \o "### PREVIOUS ANALYSIS (Stage 1)\n\"" \o stage1_output \o "\"",
     images |-> <<payload.context_images.t1_followup_slice,
                  payload.context_images.jacobian_overlay>>,
     stage |-> "stage2"]

build_verification_prompt(payload, stage1_output, stage2_output) ==
    [text |-> "### STAGE 3: LOGIC & CONSISTENCY CHECK\n"
              \o "- Stage 1 (Numbers): " \o stage1_output
              \o "\n- Stage 2 (Visuals): " \o stage2_output,
     images |-> <<>>,
     stage |-> "stage3"]

build_simplification_prompt(payload, stage3_output) ==
    [text |-> "### STAGE 4: FINAL STRUCTURED REPORT GENERATION\n"
              \o "### INPUT DATA (Source of Truth)\n" \o dumps(RoiJson(payload))
              \o "\n### VERIFIED NARRATIVE (From Stage 3)\n\"" \o stage3_output \o "\"\n"
              \o "3. **Classification:** " \o dumps(ProgressionJson(payload)),
     images |-> <<>>,
     stage |-> "stage4"]


(***************************************************************************)
(* The model collaborator.  What it answers is its own choice; these are   *)
(* the answers the checks draw from.  A report the model writes copies the *)
(* payload's numbers (0.0 for a region the payload lacks) except where the *)
(* answer says otherwise.                                                  *)
(***************************************************************************)
Response(pre, body, post) == [pre |-> pre, body |-> body, post |-> post]
Says(text) == Response("", Raw(text), "")
Json(body) == Response("", body, "")

TEXT_RESPONSES ==
    <<Says("Hippocampal loss exceeds the age norm."),
      Says("Overlay and metrics CONTRADICT each other."),
      Says("Pattern typical of ALZHEIMER disease."),
      Says("Low EMCIT index; subject Will Develop decline.")>>

PayloadMetric(payload, roi, nk) ==
    IF roi \in DOMAIN payload.roi_metrics /\ nk \in DOMAIN payload.roi_metrics[roi]
    THEN payload.roi_metrics[roi][nk] ELSE 0

\* A region entry whose numbers are the payload's plus dApc and dZ.
RegionEntry(payload, roi, dApc, dZ) ==
    LET apc == PayloadMetric(payload, roi, "annual_percent_change") + dApc
        z   == PayloadMetric(payload, roi, "z_score") + dZ
    IN  JDict(<<Item("annual_percent_change", JFloat(apc)),
                Item("z_score", JFloat(z)),
                Item("interpretation",
                     JStr("Change of " \o FloatStr(apc) \o " with Z " \o FloatStr(z) \o "."))>>)

\* The same entry with its numbers written as strings.
RegionEntryStr(payload, roi) ==
    JDict(<<Item("annual_percent_change",
                 JStr(FloatStr(PayloadMetric(payload, roi, "annual_percent_change")))),
            Item("z_score", JStr(FloatStr(PayloadMetric(payload, roi, "z_score")))),
            Item("interpretation", JStr("Within expectation."))>>)

\* All regions exact, the hippocampus off by dApc and dZ.
RegionBlock(payload, dApc, dZ) ==
    JDict([i \in 1..Len(ALLOWED_ROIS) |->
            Item(ALLOWED_ROIS[i],
                 IF i = 1 THEN RegionEntry(payload, ALLOWED_ROIS[i], dApc, dZ)
                 ELSE RegionEntry(payload, ALLOWED_ROIS[i], 0, 0))])

ClassBlock(class, score, rationale) ==
    JDict(<<Item("class", JStr(class)), Item("score", score),
            Item("rationale", JList([i \in 1..Len(rationale) |-> JStr(rationale[i])]))>>)

ExactClassBlock(payload) ==
    ClassBlock(payload.progression.class, JInt(payload.progression.score),
               payload.progression.rationale)

Report(rois, narrative, classification, rest) ==
    JDict(<<Item("roi_interpretations", rois),
            Item("final_narrative", JStr(narrative)),
            Item("classification", classification)>> \o rest)

HighConfidence == <<Item("confidence_level", JStr("High")), Item("warning_flag", JNull)>>

NARRATIVE == "Regional change follows the measured values."

\* The report that copies the payload.
ExactReport(payload) ==
    Report(RegionBlock(payload, 0, 0), NARRATIVE, ExactClassBlock(payload), HighConfidence)

\* The same with the class in capitals.
ExactReportUpper(payload) ==
    Report(RegionBlock(payload, 0, 0), NARRATIVE,
           ClassBlock(IF payload.progression.class = "Fast Progressor"
                      THEN "FAST PROGRESSOR" ELSE "NORMAL PROGRESSION",
                      JInt(payload.progression.score), payload.progression.rationale),
           HighConfidence)

\* The same where the model writes the flags itself.
ExactReportFlags(payload) ==
    Report(RegionBlock(payload, 0, 0), NARRATIVE, ExactClassBlock(payload),
           <<Item("confidence_level", JStr("High")),
             Item("warning_flag", JStr("Motion artefact")),
             Item("repair_attempted", JBool(TRUE)),
             Item("fallback_used", JBool(TRUE))>>)

OtherClass(payload) ==
    IF payload.progression.class = "Fast Progressor"
    THEN "Normal Progression" ELSE "Fast Progressor"

DropItem(d, key) == JDict(SelectSeq(d.v, LAMBDA it : it.k # key))

\* The reports a model writes when it copies the payload faithfully.
ExactReports(payload) ==
    <<ExactReport(payload), ExactReportUpper(payload), ExactReportFlags(payload)>>

\* The stage-4 answers of the common model: the exact reports, one of them
\* wrapped in prose, and the commonest flaws (small numbers in the
\* narrative, a made-up z-score, the wrong class, a disease name, prose
\* instead of JSON, a JSON list).
CommonResponses(payload) ==
    [i \in 1..Len(ExactReports(payload)) |-> Json(ExactReports(payload)[i])]
    \o
    <<Response("Here is the report: ", ExactReport(payload), " End of report."),
      Json(Report(RegionBlock(payload, 0, 0), "Atrophy of grade 9 in 8 regions.",
                  ExactClassBlock(payload), HighConfidence)),
      Json(Report(RegionBlock(payload, 0, -6000), NARRATIVE,
                  ExactClassBlock(payload), HighConfidence)),
      Json(Report(RegionBlock(payload, 0, 0), NARRATIVE,
                  ClassBlock(OtherClass(payload), JInt(payload.progression.score),
                             payload.progression.rationale), HighConfidence)),
      Json(Report(RegionBlock(payload, 0, 0), "Findings suggest Alzheimer pathology.",
                  ExactClassBlock(payload), HighConfidence)),
      Says("I cannot produce the report."),
      Json(JList(<<JStr("roi_interpretations")>>))>>

\* The rarer stage-4 answers.
RareResponses(payload) ==
    <<Json(Report(RegionBlock(payload, NUMERIC_TOLERANCE, 0), NARRATIVE,
                  ExactClassBlock(payload), HighConfidence)),
      Json(Report(RegionBlock(payload, NUMERIC_TOLERANCE + 1, 0), NARRATIVE,
                  ExactClassBlock(payload), HighConfidence)),
      Json(Report(RegionBlock(payload, 0, -NUMERIC_TOLERANCE), NARRATIVE,
                  ExactClassBlock(payload), HighConfidence)),
      Json(DropItem(ExactReport(payload), "confidence_level")),
      Json(DropItem(ExactReport(payload), "warning_flag")),
      Json(Put(ExactReport(payload), "roi_interpretations",
               DropItem(RegionBlock(payload, 0, 0), "ventricles"))),
      Json(Put(ExactReport(payload), "roi_interpretations",
               Put(RegionBlock(payload, 0, 0), "ventricles",
                   DropItem(RegionEntry(payload, "ventricles", 0, 0), "z_score")))),
      Json(Report(RegionBlock(payload, 0, 0), NARRATIVE,
                  ClassBlock(payload.progression.class, JInt(payload.progression.score + 1),
                             payload.progression.rationale), HighConfidence)),
      Json(Report(RegionBlock(payload, 0, 0), NARRATIVE,
                  DropItem(ExactClassBlock(payload), "rationale"), HighConfidence)),
      Json(Report(RegionBlock(payload, 0, 0), NARRATIVE,
                  ClassBlock(IF payload.progression.class = "Fast Progressor"
                             THEN "fast progressor" ELSE "normal progression",
                             JInt(payload.progression.score),
                             payload.progression.rationale), HighConfidence)),
      Json(Report(RegionBlock(payload, 0, 0), NARRATIVE,
                  ClassBlock(payload.progression.class,
                             JFloat(IntToFloat(payload.progression.score)),
                             payload.progression.rationale), HighConfidence)),
      Json(Put(ExactReport(payload), "patient_age", JInt(72))),
      Json(Report(RegionBlock(payload, 0, 0), "Patient aged 72 shows atrophy.",
                  ExactClassBlock(payload), HighConfidence)),
      Response("No DIAGNOSIS is made. ", ExactReport(payload), ""),
      Says("{\"roi_interpretations\": {"),
      Response("{\"note\": \"draft\"} ", ExactReport(payload), ""),
      Response("", ExactReport(payload), " Braces {} enclose the report."),
      Json(JNull),
      Json(JInt(5)),
      Json(Put(ExactReport(payload), "roi_interpretations",
               JDict([i \in 1..Len(ALLOWED_ROIS) |->
                        Item(ALLOWED_ROIS[i], RegionEntryStr(payload, ALLOWED_ROIS[i]))]))),
      Json(Put(ExactReport(payload), "roi_interpretations",
               JList([i \in 1..Len(ALLOWED_ROIS) |-> JStr(ALLOWED_ROIS[i])])))>>

\* The stage-4 answers of the varied model.
JsonResponses(payload) == CommonResponses(payload) \o RareResponses(payload)

\* The numbers of the regions the payload has, as a text: every one of them,
\* every one but the last z-score, and every one with a digit more.
NumbersText(payload, upto, more) ==
    Join([i \in 1..Len(PresentRois(payload)) |->
            RoiTitle(PresentRois(payload)[i]) \o " "
            \o FloatStr(payload.roi_metrics[PresentRois(payload)[i]].annual_percent_change)
            \o more
            \o (IF i <= upto
                THEN " / " \o FloatStr(payload.roi_metrics[PresentRois(payload)[i]].z_score)
                      \o more
                ELSE "")], "\n")

\* The text-stage answers of the varied model.
VariedTextResponses(payload) ==
    TEXT_RESPONSES
    \o <<Says(""),
         Says(NumbersText(payload, Len(PresentRois(payload)), "")),
         Says(NumbersText(payload, Len(PresentRois(payload)) - 1, "")),
         Says(NumbersText(payload, Len(PresentRois(payload)), "5")),
         Says(NumbersText(payload, Len(PresentRois(payload)), "") \o "\nNo dementia.")>>


(***************************************************************************)
(* One attempt of the stage executor, lines 268-297: the exception that    *)
(* the try block raises on the response, NoError when it validates.        *)
(***************************************************************************)
\* TextModeCheck looking for the annual changes alone: C25 does not hold of
\* it.
TextModeCheck_changesonly(response, payload, strict) ==
    LET e == check_forbidden_terms(response)
        miss == FirstIdx(Len(ALLOWED_ROIS),
                    LAMBDA i :
                        \/ ALLOWED_ROIS[i] \notin DOMAIN payload.roi_metrics
                        \/ ~StrIn(FloatStr(payload.roi_metrics[ALLOWED_ROIS[i]].annual_percent_change),
                                  response))
    IN  IF e.type # "" THEN e
        ELSE IF strict /\ miss # 0
        THEN IF ALLOWED_ROIS[miss] \notin DOMAIN payload.roi_metrics
             THEN KeyError(ALLOWED_ROIS[miss])
             ELSE ValueError("Missing numeric value in text output for ROI "
                             \o ALLOWED_ROIS[miss] \o ".")
        ELSE NoError

TextModeCheck(response, payload, strict) ==
    LET e == check_forbidden_terms(response)
        miss == FirstIdx(Len(ALLOWED_ROIS),
                    LAMBDA i :
                        \/ ALLOWED_ROIS[i] \notin DOMAIN payload.roi_metrics
                        \/ ~StrIn(FloatStr(payload.roi_metrics[ALLOWED_ROIS[i]].annual_percent_change),
                                  response)
                        \/ ~StrIn(FloatStr(payload.roi_metrics[ALLOWED_ROIS[i]].z_score),
                                  response))
    IN  IF e.type # "" THEN e
        ELSE IF strict /\ miss # 0
        THEN IF ALLOWED_ROIS[miss] \notin DOMAIN payload.roi_metrics
             THEN KeyError(ALLOWED_ROIS[miss])
             ELSE ValueError("Missing numeric value in text output for ROI "
                             \o ALLOWED_ROIS[miss] \o ".")
        ELSE NoError

JsonModeCheck(r, payload) ==
    LET e == check_forbidden_terms(ResponseText(r))
        parsed == ParseResponse(r)
    IN  IF e.type # "" THEN e
        ELSE IF parsed = JNull THEN ValueError("Model output is not valid JSON.")
        ELSE validate_final_json(parsed, payload)

AttemptCheck(r, payload, expect_json, strict) ==
    IF expect_json THEN JsonModeCheck(r, payload)
    ELSE TextModeCheck(ResponseText(r), payload, strict)

Last(s) == s[Len(s)]

\* The elements of a finite sequence, each worked out once.
Tabulate(f) == SubSeq(f, 1, Len(f))

PAYLOADS ==
    <<PayloadFast, PayloadNormal, PayloadScenario, PayloadNoVentricles, PayloadNoMetadata>>

\* A payload that fails the payload check never reaches a stage.
Reaches(p) == validate_payload(p).type = ""

\* A string the model returns, with what the try block of one attempt makes
\* of it: the exception of the validation (NoError when it passes) and, at
\* the JSON stage, what the string parses to.
Answer(r, payload, json_mode, strict) ==
    [text |-> ResponseText(r),
     verdict |-> AttemptCheck(r, payload, json_mode, strict),
     parsed |-> IF json_mode THEN ParseResponse(r) ELSE JNull]

\* The strings a model can return at a text stage and at the JSON stage,
\* tabulated per payload.
AnswersTo(responses, payload, json_mode, strict) ==
    IF Reaches(payload)
    THEN {Answer(responses[i], payload, json_mode, strict) : i \in 1..Len(responses)}
    ELSE {}

TEXT_ANSWERS ==
    Tabulate([k \in 1..Len(PAYLOADS) |->
                AnswersTo(TEXT_RESPONSES, PAYLOADS[k], FALSE, FALSE)])

VARIED_TEXT_ANSWERS ==
    Tabulate([k \in 1..Len(PAYLOADS) |->
                [strict \in BOOLEAN |->
                    AnswersTo(VariedTextResponses(PAYLOADS[k]), PAYLOADS[k], FALSE, strict)]])

COMMON_ANSWERS ==
    Tabulate([k \in 1..Len(PAYLOADS) |->
                AnswersTo(CommonResponses(PAYLOADS[k]), PAYLOADS[k], TRUE, TRUE)])

JSON_ANSWERS ==
    Tabulate([k \in 1..Len(PAYLOADS) |->
                AnswersTo(JsonResponses(PAYLOADS[k]), PAYLOADS[k], TRUE, TRUE)])

\* The texts that n text stages can have validated for the k-th payload.
ValidatedTexts(k, n) ==
    [1..n -> {a.text : a \in {b \in TEXT_ANSWERS[k] : b.verdict = NoError}}]

\* Lines 353, 365, 377 and 389: the package of stage n, built from the
\* payload and the validated texts ts of the stages before it.
StagePackage(payload, n, ts) ==
    CASE n = 1 -> build_numeric_prompt(payload)
      [] n = 2 -> build_multimodal_prompt(payload, ts[1])
      [] n = 3 -> build_verification_prompt(payload, ts[1], ts[2])
      [] n = 4 -> build_simplification_prompt(payload, ts[3])

\* Lines 309-313: what the fallback does, an exception or a report.
FallbackOutcome(payload, ts) ==
    [raised |-> FallbackError(payload),
     report |-> IF FallbackError(payload) = NoError
                THEN deterministic_fallback(payload, ts[1], ts[2], ts[3])
                ELSE JNull]

\* The packages and the fallback outcomes, tabulated per payload.
PACKAGES ==
    Tabulate([k \in 1..Len(PAYLOADS) |->
        IF Reaches(PAYLOADS[k])
        THEN UNION {{[n |-> n, ts |-> ts, package |-> StagePackage(PAYLOADS[k], n, ts)] :
                        ts \in ValidatedTexts(k, n - 1)} : n \in 1..4}
        ELSE {}])

FALLBACKS ==
    Tabulate([k \in 1..Len(PAYLOADS) |->
        IF Reaches(PAYLOADS[k])
        THEN {[ts |-> ts, outcome |-> FallbackOutcome(PAYLOADS[k], ts)] :
                ts \in ValidatedTexts(k, 3)}
        ELSE {}])

(***************************************************************************)
(* The run: run_multistage_reasoning driving _execute_with_retry_json.     *)
(*                                                                         *)
(*   run_payload     the payload argument of the run                       *)
(*   medgemma_client the model the run is given: "common" or "varied"      *)
(*   pc              "start"; "calling" (at the head of the retry loop);   *)
(*                   "validated" (the try block has run on the response);  *)
(*                   "postcheck" (stage 4 has returned); "returned";       *)
(*                   "raised"                                              *)
(*   stage_no        the stage being executed, 1..4 (0 before the first)   *)
(*   attempt         the loop variable of the executor                     *)
(*   prompt_package  the package the next model call receives              *)
(*   base_prompt, images, stage   the executor's copies of the initial     *)
(*                   package, lines 255-257                                *)
(*   model_response  the string under validation (response)               *)
(*   parsed_json     what it parsed to, at the JSON stage (parsed)         *)
(*   last_error      the exception of the validation (e), NoError if none  *)
(*   texts           the validated texts of stages 1..3 so far             *)
(*   final_json      what stage 4 returned                                 *)
(*   result          what the run returned                                 *)
(*   error           the exception the run raised                          *)
(*   calls           model invocations of the run so far                   *)
(*   hist            one entry per model invocation of the current stage   *)
(*                                                                         *)
(* The response, its parse and the exception are dead once the attempt has *)
(* been dealt with, and so are the executor's variables once it returns.   *)
(***************************************************************************)
VARIABLES run_payload, medgemma_client, pc, stage_no, attempt, prompt_package, base_prompt, images,
          stage, model_response, parsed_json, last_error, texts, final_json, result,
          error, calls, hist, step_outputs, strict_text, log_tail, cached_images,
          model_inputs, tried

vars == <<run_payload, medgemma_client, pc, stage_no, attempt, prompt_package, base_prompt, images,
          stage, model_response, parsed_json, last_error, texts, final_json, result,
          error, calls, hist, step_outputs, strict_text, log_tail, cached_images,
          model_inputs, tried>>

\* What no step of a run changes (the arguments of the payload builder, and
\* the strict argument that the executor is given for a text stage, which is
\* read at line 273 only), the inside of the model client (to a run the
\* client is a function it calls: what it keeps and what it does during a
\* call are the matter of ClientSpec), the arguments of the run, the
\* variables of the executor, and those of one attempt.
client == <<cached_images, model_inputs, tried>>
outside == <<step_outputs, strict_text, client>>
args == <<run_payload, medgemma_client>>
frame == <<attempt, prompt_package, base_prompt, images, stage>>
try == <<model_response, parsed_json, last_error>>

NoOutputs == <<>>
None == <<>>
NoInputs == [text |-> "", images |-> None]
NoPayload == <<>>
NoPackage == [text |-> "", images |-> <<>>, stage |-> ""]
NoResult == [thinking_trace |-> <<>>, final_output |-> JNull,
             confidence_level |-> JNull, warning_flag |-> JNull]

Init ==
    /\ run_payload \in Payloads
    /\ medgemma_client = "common"
    /\ pc = "start"
    /\ stage_no = 0
    /\ attempt = 0
    /\ prompt_package = NoPackage
    /\ base_prompt = ""
    /\ images = <<>>
    /\ stage = ""
    /\ model_response = ""
    /\ parsed_json = JNull
    /\ last_error = NoError
    /\ texts = <<>>
    /\ final_json = JNull
    /\ result = NoResult
    /\ error = NoError
    /\ calls = 0
    /\ hist = <<>>
    /\ log_tail = <<>>
    /\ cached_images = None
    /\ model_inputs = NoInputs
    /\ tried = <<>>
    /\ step_outputs = NoOutputs
    /\ strict_text = FALSE

expect_json == stage_no = 4

\* The place of the run's payload among the payloads.
pid == CHOOSE k \in 1..Len(PAYLOADS) : PAYLOADS[k] = run_payload

\* The strings the model can return at the current stage.
Answers ==
    IF ~expect_json
    THEN IF medgemma_client = "varied" THEN VARIED_TEXT_ANSWERS[pid][strict_text]
         ELSE IF strict_text THEN AnswersTo(TEXT_RESPONSES, run_payload, FALSE, TRUE)
         ELSE TEXT_ANSWERS[pid]
    ELSE IF medgemma_client = "varied" THEN JSON_ANSWERS[pid]
    ELSE COMMON_ANSWERS[pid]

\* The package of stage n for the run's payload and the validated texts ts,
\* and what the fallback does for them.
Package(n, ts) == (CHOOSE e \in PACKAGES[pid] : e.n = n /\ e.ts = ts).package
Fallback(ts) == (CHOOSE e \in FALLBACKS[pid] : e.ts = ts).outcome

\* The attempt has been dealt with.
EndTry ==
    /\ model_response' = ""
    /\ parsed_json' = JNull
    /\ last_error' = NoError

\* The entry of the executor for stage n with the package pkg, lines 255-259.
EnterStage(n, pkg) ==
    /\ pc' = "calling"
    /\ stage_no' = n
    /\ attempt' = 0
    /\ prompt_package' = pkg
    /\ base_prompt' = pkg.text
    /\ images' = pkg.images
    /\ stage' = pkg.stage
    /\ hist' = <<>>

\* The executor returns.
LeaveStage ==
    /\ attempt' = 0
    /\ prompt_package' = NoPackage
    /\ base_prompt' = ""
    /\ images' = <<>>
    /\ stage' = ""

Raise(e) ==
    /\ pc' = "raised"
    /\ error' = e

\* str(e): a KeyError shows its key quoted.
StrOfExc(e) == IF e.type = "KeyError" THEN "'" \o e.msg \o "'" ELSE e.msg

\* The audit log.  The logger only appends; log_tail is what the last step
\* appended.  An entry has the level it was logged at, the stage whose name
\* opens its message (0 for the sequencer's own entries), and the rest of
\* the message.
Logged(level, msg) == [level |-> level, stage |-> stage_no, msg |-> msg]
Logs(entries) == log_tail' = entries

AttemptLogged == Logged("info", "Attempt " \o ToString(attempt + 1))
RawLogged(response) == Logged("debug", "raw output:\n" \o response)
PassedLogged ==
    Logged("info", IF expect_json THEN "JSON passed validation."
                   ELSE "passed validation (non-JSON).")
FailedLogged == Logged("warning", "validation failed: " \o StrOfExc(last_error))
FallbackLogged ==
    <<Logged("error", "failed. Using deterministic fallback."),
      [level |-> "info", stage |-> 0,
       msg |-> "Using deterministic fallback to generate final JSON (no LLM)."]>>

\* Lines 347-362: the payload check, then the first stage.
Start ==
    /\ pc = "start"
    /\ IF validate_payload(run_payload).type # ""
       THEN /\ Raise(validate_payload(run_payload))
            /\ UNCHANGED <<stage_no, frame, hist>>
       ELSE /\ EnterStage(1, Package(1, <<>>))
            /\ UNCHANGED error
    /\ Logs(<<[level |-> "info", stage |-> 0, msg |-> "========== Starting Step 6 Reasoning =========="]>>)
    /\ UNCHANGED <<outside, args, try, texts, final_json, result, calls>>

\* What an invocation leaves in hist: the attempt it belongs to, whether the
\* package it was given carried a repair request, how the attempt ended
\* ("passed", "failed", or "fatal" when nothing caught the exception), and
\* the response if it was accepted.
Entry(outcome, accepted) ==
    [attempt |-> attempt,
     repair |-> prompt_package.text # base_prompt,
     outcome |-> outcome,
     accepted |-> accepted]

\* Lines 261-264: the model raises, or returns something that is no string.
\* Nothing catches either.
ModelRaises ==
    /\ pc = "calling"
    /\ calls' = calls + 1
    /\ hist' = Append(hist, Entry("fatal", ""))
    /\ Raise(Exc("RuntimeError", "All OOM retries failed."))
    /\ Logs(<<AttemptLogged>>)
    /\ UNCHANGED <<outside, args, stage_no, frame, try, texts, final_json, result>>

\* ModelReturnsNonString with the isinstance check inside the try block, its
\* exception caught like a validation failure: C7 does not hold of it.
ModelReturnsNonString_caught ==
    /\ pc = "calling"
    /\ calls' = calls + 1
    /\ hist' = Append(hist, Entry("fatal", ""))
    /\ model_response' = ""
    /\ parsed_json' = JNull
    /\ last_error' = ValueError("Model response must be string.")
    /\ pc' = "validated"
    /\ Logs(<<AttemptLogged>>)
    /\ UNCHANGED <<outside, args, stage_no, frame, texts, final_json, result, error>>

ModelReturnsNonString ==
    /\ pc = "calling"
    /\ calls' = calls + 1
    /\ hist' = Append(hist, Entry("fatal", ""))
    /\ Raise(ValueError("Model response must be string."))
    /\ Logs(<<AttemptLogged>>)
    /\ UNCHANGED <<outside, args, stage_no, frame, try, texts, final_json, result>>

\* Lines 261-297: the model returns a string and the try block runs on it.
ModelReturnsString ==
    /\ pc = "calling"
    /\ calls' = calls + 1
    /\ \E a \in Answers :
        /\ model_response' = a.text
        /\ parsed_json' = a.parsed
        /\ last_error' = a.verdict
    /\ hist' = Append(hist, IF last_error' = NoError
                            THEN Entry("passed", model_response')
                            ELSE Entry("failed", ""))
    /\ pc' = "validated"
    /\ Logs(<<AttemptLogged, RawLogged(model_response')>>)
    /\ UNCHANGED <<outside, args, stage_no, frame, texts, final_json, result, error>>


\* TextStagePasses for a response that failed its validation as well: C22
\* does not hold of it.
TextStagePasses_unvalidated ==
    /\ pc = "validated"
    /\ ~expect_json
    /\ texts' = Append(texts, model_response)
    /\ EnterStage(stage_no + 1, StagePackage(run_payload, stage_no + 1, texts'))
    /\ EndTry
    /\ Logs(<<PassedLogged>>)
    /\ UNCHANGED <<outside, args, final_json, result, error, calls>>

\* Line 280 and the sequencer's next step: a text stage has validated, its
\* text is kept and the next stage is entered.
TextStagePasses ==
    /\ pc = "validated"
    /\ last_error = NoError
    /\ ~expect_json
    /\ texts' = Append(texts, model_response)
    /\ EnterStage(stage_no + 1, Package(stage_no + 1, texts'))
    /\ EndTry
    /\ Logs(<<PassedLogged>>)
    /\ UNCHANGED <<outside, args, final_json, result, error, calls>>

\* JsonStagePasses without lines 299-300: C4 does not hold of it.
JsonStagePasses_asparsed ==
    /\ pc = "validated"
    /\ last_error = NoError
    /\ expect_json
    /\ final_json' = parsed_json
    /\ pc' = "postcheck"
    /\ LeaveStage
    /\ EndTry
    /\ Logs(<<PassedLogged>>)
    /\ UNCHANGED <<outside, args, stage_no, texts, result, error, calls, hist>>

\* JsonStagePasses with repair_attempted always false: C14 does not hold
\* of it.
JsonStagePasses_unrepaired ==
    /\ pc = "validated"
    /\ last_error = NoError
    /\ expect_json
    /\ final_json' = Put(Put(parsed_json, "repair_attempted", JBool(FALSE)),
                         "fallback_used", JBool(FALSE))
    /\ pc' = "postcheck"
    /\ LeaveStage
    /\ EndTry
    /\ Logs(<<PassedLogged>>)
    /\ UNCHANGED <<outside, args, stage_no, texts, result, error, calls, hist>>

\* Lines 299-302: the JSON stage has validated; the two flags are set.
JsonStagePasses ==
    /\ pc = "validated"
    /\ last_error = NoError
    /\ expect_json
    /\ final_json' = Put(Put(parsed_json, "repair_attempted", JBool(attempt > 0)),
                         "fallback_used", JBool(FALSE))
    /\ pc' = "postcheck"
    /\ LeaveStage
    /\ EndTry
    /\ Logs(<<PassedLogged>>)
    /\ UNCHANGED <<outside, args, stage_no, texts, result, error, calls, hist>>

\* Lines 318-326.
RepairPrompt(base, e) ==
    base \o "\n\nVALIDATION ERROR:\n" \o StrOfExc(e)
    \o "\n\nREQUIREMENTS FOR THE NEXT RESPONSE (NON-NEGOTIABLE):\n"
    \o "1) Return ONLY valid JSON.\n"
    \o "2) Numeric values must match the provided payload EXACTLY.\n"
    \o "3) Do NOT include forbidden medical claims.\n"

\* Exhausted one attempt late and one attempt early: C5 does not hold of the
\* first, C8 does not hold of the second.
Exhausted_late(n) == n = MAX_RETRY + 1
Exhausted_early(n) == n = MAX_RETRY - 1

\* attempt == MAX_RETRY, line 307.
Exhausted(n) == n = MAX_RETRY

\* AttemptFailsRepair with a loop that never ends: C2 does not hold of it.
AttemptFailsRepair_unbounded ==
    /\ pc = "validated"
    /\ last_error # NoError
    /\ prompt_package' = [text |-> RepairPrompt(base_prompt, last_error),
                          images |-> images, stage |-> stage]
    /\ attempt' = attempt + 1
    /\ pc' = "calling"
    /\ EndTry
    /\ Logs(<<FailedLogged>>)
    /\ UNCHANGED <<outside, args, stage_no, base_prompt, images, stage, texts, final_json,
                   result, error, calls, hist>>

\* AttemptFailsRepair with the repair built on the package that failed:
\* C15 does not hold of it.
AttemptFailsRepair_accumulating ==
    /\ pc = "validated"
    /\ last_error # NoError
    /\ ~Exhausted(attempt)
    /\ prompt_package' = [text |-> RepairPrompt(prompt_package.text, last_error),
                          images |-> images, stage |-> stage]
    /\ attempt' = attempt + 1
    /\ pc' = "calling"
    /\ EndTry
    /\ Logs(<<FailedLogged>>)
    /\ UNCHANGED <<outside, args, stage_no, base_prompt, images, stage, texts, final_json,
                   result, error, calls, hist>>

\* AttemptFailsRepair with a repair package of text alone: C16 does not
\* hold of it.
AttemptFailsRepair_textonly ==
    /\ pc = "validated"
    /\ last_error # NoError
    /\ ~Exhausted(attempt)
    /\ prompt_package' = [text |-> RepairPrompt(base_prompt, last_error),
                          images |-> <<>>, stage |-> "repair"]
    /\ attempt' = attempt + 1
    /\ pc' = "calling"
    /\ EndTry
    /\ Logs(<<FailedLogged>>)
    /\ UNCHANGED <<outside, args, stage_no, base_prompt, images, stage, texts, final_json,
                   result, error, calls, hist>>

\* Lines 304-334: the validation has failed with attempts left; the repair
\* package is built and the loop goes round (or runs out, line 334).
AttemptFailsRepair ==
    /\ pc = "validated"
    /\ last_error # NoError
    /\ ~Exhausted(attempt)
    /\ prompt_package' = [text |-> RepairPrompt(base_prompt, last_error),
                          images |-> images, stage |-> stage]
    /\ attempt' = attempt + 1
    /\ IF attempt + 1 < MAX_RETRY + 1
       THEN /\ pc' = "calling"
            /\ UNCHANGED error
       ELSE Raise(Exc("RuntimeError", "Unexpected control flow."))
    /\ EndTry
    /\ Logs(<<FailedLogged>>)
    /\ UNCHANGED <<outside, args, stage_no, base_prompt, images, stage, texts, final_json,
                   result, calls, hist>>

\* Lines 304-315, a text stage: the last attempt has failed and its
\* exception is raised again.
TextStageAborts ==
    /\ pc = "validated"
    /\ last_error # NoError
    /\ Exhausted(attempt)
    /\ ~expect_json
    /\ Raise(last_error)
    /\ Logs(<<FailedLogged>>)
    /\ UNCHANGED <<outside, args, stage_no, frame, try, texts, final_json, result, calls,
                   hist>>

\* JsonStageFallsBack with the fallback rounding the payload's own numbers
\* where they stand, instead of copies of them: C28 does not hold of it.
JsonStageFallsBack_inplace ==
    /\ pc = "validated"
    /\ last_error # NoError
    /\ Exhausted(attempt)
    /\ expect_json
    /\ Fallback(texts).raised = NoError
    /\ run_payload' =
         [run_payload EXCEPT !.roi_metrics =
            [roi \in DOMAIN run_payload.roi_metrics |->
                [nk \in DOMAIN run_payload.roi_metrics[roi] |->
                    Round3(run_payload.roi_metrics[roi][nk])]]]
    /\ final_json' = Fallback(texts).report
    /\ pc' = "postcheck"
    /\ LeaveStage
    /\ EndTry
    /\ Logs(<<FailedLogged>> \o FallbackLogged)
    /\ UNCHANGED <<outside, medgemma_client, stage_no, texts, result, error, calls, hist>>

\* JsonStageFallsBack catching ValueError alone, any other exception of the
\* try block leaving the executor: C23 does not hold of it.
JsonStageFallsBack_valueerrors ==
    /\ pc = "validated"
    /\ last_error # NoError
    /\ Exhausted(attempt)
    /\ expect_json
    /\ IF last_error.type # "ValueError"
       THEN /\ Raise(last_error)
            /\ UNCHANGED final_json
       ELSE /\ final_json' = Fallback(texts).report
            /\ pc' = "postcheck"
            /\ UNCHANGED error
    /\ LeaveStage
    /\ EndTry
    /\ Logs(<<FailedLogged>> \o FallbackLogged)
    /\ UNCHANGED <<outside, args, stage_no, texts, result, calls, hist>>

\* Lines 304-313, the JSON stage: the last attempt has failed and the
\* fallback report is returned (the fallback raises on a payload it cannot
\* read).
JsonStageFallsBack ==
    /\ pc = "validated"
    /\ last_error # NoError
    /\ Exhausted(attempt)
    /\ expect_json
    /\ IF Fallback(texts).raised # NoError
       THEN /\ Raise(Fallback(texts).raised)
            /\ UNCHANGED final_json
       ELSE /\ final_json' = Fallback(texts).report
            /\ pc' = "postcheck"
            /\ UNCHANGED error
    /\ LeaveStage
    /\ EndTry
    /\ Logs(<<FailedLogged>> \o FallbackLogged)
    /\ UNCHANGED <<outside, args, stage_no, texts, result, calls, hist>>

\* The test made on the text as it stands, not on its lower-case form.
MentionsMismatch_cased(text) ==
    \E i \in 1..Len(MISMATCH_TERMS) :
        TermInChars(MISMATCH_TERMS[i], [j \in 1..Len(text) |-> Char(text, j)])

\* any(term in lower_s2 for term in MISMATCH_TERMS)
MentionsMismatch(text) ==
    \E i \in 1..Len(MISMATCH_TERMS) : TermInChars(MISMATCH_TERMS[i], lower(text))

\* not final_json.get("fallback_used", False)
NotFallback(report) == ~(Has(report, "fallback_used") /\ Get(report, "fallback_used") = JBool(TRUE))

\* PostCheck comparing the two classes as they are written, without
\* lower(): C27 does not hold of it.
PostCheck_cased ==
    /\ pc = "postcheck"
    /\ IF /\ NotFallback(final_json)
          /\ Get(Get(final_json, "classification"), "class").v
                # run_payload.progression.class
       THEN /\ Raise(ValueError("Final JSON classification mismatch AFTER repair."))
            /\ UNCHANGED <<final_json, result>>
       ELSE /\ final_json' =
                IF /\ MentionsMismatch(texts[2])
                   /\ GetOr(final_json, "warning_flag", JNull) = JNull
                THEN Put(Put(final_json, "warning_flag", JStr("Visual-Numeric Mismatch")),
                         "confidence_level", JStr("Low (Visual Mismatch)"))
                ELSE final_json
            /\ result' = [thinking_trace |-> [stage1_quantitative |-> texts[1],
                                              stage2_multimodal |-> texts[2],
                                              stage3_verification |-> texts[3]],
                          final_output |-> final_json',
                          confidence_level |-> GetOr(final_json', "confidence_level", JNull),
                          warning_flag |-> GetOr(final_json', "warning_flag", JNull)]
            /\ pc' = "returned"
            /\ UNCHANGED error
    /\ Logs(IF pc' = "returned"
            THEN <<[level |-> "info", stage |-> 0,
                   msg |-> "========== Step 6 Completed Successfully =========="]>>
            ELSE <<>>)
    /\ UNCHANGED <<outside, args, stage_no, frame, try, texts, calls, hist>>

\* Lines 407-432: the class is checked once more, a mismatch that stage 2
\* reported lowers the confidence, and the run returns.
PostCheck ==
    /\ pc = "postcheck"
    /\ IF /\ NotFallback(final_json)
          /\ ~LowerEq(Get(Get(final_json, "classification"), "class").v,
                      run_payload.progression.class)
       THEN /\ Raise(ValueError("Final JSON classification mismatch AFTER repair."))
            /\ UNCHANGED <<final_json, result>>
       ELSE /\ final_json' =
                IF /\ MentionsMismatch(texts[2])
                   /\ GetOr(final_json, "warning_flag", JNull) = JNull
                THEN Put(Put(final_json, "warning_flag", JStr("Visual-Numeric Mismatch")),
                         "confidence_level", JStr("Low (Visual Mismatch)"))
                ELSE final_json
            /\ result' = [thinking_trace |-> [stage1_quantitative |-> texts[1],
                                              stage2_multimodal |-> texts[2],
                                              stage3_verification |-> texts[3]],
                          final_output |-> final_json',
                          confidence_level |-> GetOr(final_json', "confidence_level", JNull),
                          warning_flag |-> GetOr(final_json', "warning_flag", JNull)]
            /\ pc' = "returned"
            /\ UNCHANGED error
    /\ Logs(IF pc' = "returned"
            THEN <<[level |-> "info", stage |-> 0,
                   msg |-> "========== Step 6 Completed Successfully =========="]>>
            ELSE <<>>)
    /\ UNCHANGED <<outside, args, stage_no, frame, try, texts, calls, hist>>

Next ==
    \/ Start
    \/ ModelRaises
    \/ ModelReturnsNonString
    \/ ModelReturnsString
    \/ TextStagePasses
    \/ JsonStagePasses
    \/ AttemptFailsRepair
    \/ TextStageAborts
    \/ JsonStageFallsBack
    \/ PostCheck

Spec == Init /\ [][Next]_vars

\* Every model invocation returns and the run goes on while it can.
FairSpec == Spec /\ WF_vars(Next)

(***************************************************************************)
(* The final stage on its own, given the varied model: the run as it       *)
(* stands when the three text stages have each passed at the first attempt *)
(* with the same text, lines 398-405.                                      *)
(***************************************************************************)
STAGE_TEXT == "Hippocampal loss exceeds the age norm."

ExecutorInit ==
    /\ run_payload \in {p \in Payloads : Reaches(p)}
    /\ medgemma_client = "varied"
    /\ pc = "calling"
    /\ stage_no = 4
    /\ attempt = 0
    /\ prompt_package = StagePackage(run_payload, 4, <<STAGE_TEXT, STAGE_TEXT, STAGE_TEXT>>)
    /\ base_prompt = prompt_package.text
    /\ images = prompt_package.images
    /\ stage = prompt_package.stage
    /\ model_response = ""
    /\ parsed_json = JNull
    /\ last_error = NoError
    /\ texts = <<STAGE_TEXT, STAGE_TEXT, STAGE_TEXT>>
    /\ final_json = JNull
    /\ result = NoResult
    /\ error = NoError
    /\ calls = 3
    /\ hist = <<>>
    /\ log_tail = <<>>
    /\ cached_images = None
    /\ model_inputs = NoInputs
    /\ tried = <<>>
    /\ step_outputs = NoOutputs
    /\ strict_text = FALSE

ExecutorNext ==
    \/ ModelRaises
    \/ ModelReturnsNonString
    \/ ModelReturnsString
    \/ JsonStagePasses
    \/ AttemptFailsRepair
    \/ JsonStageFallsBack
    \/ PostCheck

ExecutorSpec == ExecutorInit /\ [][ExecutorNext]_vars

(***************************************************************************)
(* The executor at a text stage on its own: stage 1, with the strict       *)
(* argument set or not, and the varied model.                              *)
(***************************************************************************)
TextExecutorInit ==
    /\ run_payload \in {p \in Payloads : Reaches(p)}
    /\ medgemma_client = "varied"
    /\ strict_text \in BOOLEAN
    /\ pc = "calling"
    /\ stage_no = 1
    /\ attempt = 0
    /\ prompt_package = StagePackage(run_payload, 1, <<>>)
    /\ base_prompt = prompt_package.text
    /\ images = prompt_package.images
    /\ stage = prompt_package.stage
    /\ model_response = ""
    /\ parsed_json = JNull
    /\ last_error = NoError
    /\ texts = <<>>
    /\ final_json = JNull
    /\ result = NoResult
    /\ error = NoError
    /\ calls = 0
    /\ hist = <<>>
    /\ log_tail = <<>>
    /\ cached_images = None
    /\ model_inputs = NoInputs
    /\ tried = <<>>
    /\ step_outputs = NoOutputs

\* Lines 279-280: the text stage has validated and the executor returns the
\* response.
TextStageReturns ==
    /\ pc = "validated"
    /\ last_error = NoError
    /\ ~expect_json
    /\ texts' = Append(texts, model_response)
    /\ pc' = "stage_returned"
    /\ LeaveStage
    /\ EndTry
    /\ Logs(<<PassedLogged>>)
    /\ UNCHANGED <<outside, args, stage_no, final_json, result, error, calls, hist>>

TextExecutorNext ==
    \/ ModelRaises
    \/ ModelReturnsNonString
    \/ ModelReturnsString
    \/ TextStageReturns
    \/ AttemptFailsRepair
    \/ TextStageAborts

TextExecutorSpec == TextExecutorInit /\ [][TextExecutorNext]_vars

(***************************************************************************)
(* The model client on its own (Model_call.py): one MedGemmaClient, made   *)
(* once per process (Module2_orchestrator.py, lines 58-63), on which       *)
(* generate is called with the packages of one pipeline run after another. *)
(* The runs are those of two subjects, each with its own two context       *)
(* images.  An image is known by the path it was opened from.              *)
(***************************************************************************)
STAGE_TOKEN_CAPS == [stage1 |-> 512, stage2 |-> 768, stage3 |-> 512, stage4 |-> 1024]

\* Lines 175-183; int(max_tokens * 0.75) is exact for the caps there are.
Budgets(stage_key) ==
    LET max_tokens == IF stage_key \in DOMAIN STAGE_TOKEN_CAPS
                      THEN STAGE_TOKEN_CAPS[stage_key] ELSE 768
    IN  <<max_tokens, (max_tokens * 75) \div 100, 512, 384, 256>>

\* Image.open(p).convert("RGB")
OpenImage(path) == [opened_from |-> path]

\* _prepare_images: what it returns and what it leaves in the cache.
prepare_images(image_paths, cache) ==
    IF image_paths = <<>> THEN [returned |-> None, cache |-> cache]
    ELSE IF cache = None
    THEN [returned |-> [i \in 1..Len(image_paths) |-> OpenImage(image_paths[i])],
          cache |-> [i \in 1..Len(image_paths) |-> OpenImage(image_paths[i])]]
    ELSE [returned |-> cache, cache |-> cache]

PayloadOther ==
    [PayloadNormal EXCEPT !.context_images =
        [jacobian_overlay |-> "out2/jacobian_overlay.png",
         t1_followup_slice |-> "out2/t1_followup_slice.png"]]

\* The packages of the four stages of the two runs.
ClientPackages ==
    {StagePackage(p, n, <<STAGE_TEXT, STAGE_TEXT, STAGE_TEXT>>) :
        p \in {PayloadFast, PayloadOther}, n \in 1..4}

ClientInit ==
    /\ run_payload = NoPayload
    /\ medgemma_client = "generate"
    /\ strict_text = FALSE
    /\ pc = "idle"
    /\ stage_no = 0
    /\ attempt = 0
    /\ prompt_package = NoPackage
    /\ base_prompt = ""
    /\ images = <<>>
    /\ stage = ""
    /\ model_response = ""
    /\ parsed_json = JNull
    /\ last_error = NoError
    /\ texts = <<>>
    /\ final_json = JNull
    /\ result = NoResult
    /\ error = NoError
    /\ calls = 0
    /\ hist = <<>>
    /\ log_tail = <<>>
    /\ step_outputs = NoOutputs
    /\ cached_images = None
    /\ model_inputs = NoInputs
    /\ tried = <<>>

run == <<run_payload, medgemma_client, stage_no, attempt, base_prompt, images, stage,
         parsed_json, last_error, texts, final_json, result, calls, hist, step_outputs,
         strict_text>>

\* Lines 139-197: generate is called; the images are prepared and the inputs
\* of the model are made.
Generate ==
    /\ pc = "idle"
    /\ \E pkg \in ClientPackages :
        /\ prompt_package' = pkg
        /\ cached_images' = prepare_images(pkg.images, cached_images).cache
        /\ model_inputs' = [text |-> pkg.text,
                            images |-> prepare_images(pkg.images, cached_images).returned]
    /\ tried' = <<>>
    /\ model_response' = ""
    /\ error' = NoError
    /\ pc' = "generating"
    /\ Logs(<<>>)
    /\ UNCHANGED run

\* Lines 199-220: one turn of the loop runs out of memory; after the last
\* budget the loop is over with no output and generate raises.
AttemptOutOfMemory ==
    /\ pc = "generating"
    /\ tried' = Append(tried, Budgets(prompt_package.stage)[Len(tried) + 1])
    /\ Logs(<<[level |-> "warning", stage |-> 0,
              msg |-> "OOM at " \o ToString(Last(tried')) \o " tokens. Retrying lower."]>>)
    /\ IF Len(tried') = Len(Budgets(prompt_package.stage))
       THEN /\ pc' = "idle"
            /\ error' = Exc("RuntimeError", "All OOM retries failed.")
       ELSE UNCHANGED <<pc, error>>
    /\ UNCHANGED <<run, prompt_package, model_response, cached_images, model_inputs>>

\* Lines 199-246: one turn of the loop gets its output, the loop is left and
\* generate returns the text.
AttemptGenerates ==
    /\ pc = "generating"
    /\ tried' = Append(tried, Budgets(prompt_package.stage)[Len(tried) + 1])
    /\ model_response' = STAGE_TEXT
    /\ pc' = "idle"
    /\ Logs(<<[level |-> "info", stage |-> 0, msg |-> prompt_package.stage]>>)
    /\ UNCHANGED <<run, prompt_package, error, cached_images, model_inputs>>

ClientNext == Generate \/ AttemptOutOfMemory \/ AttemptGenerates

ClientSpec == ClientInit /\ [][ClientNext]_vars

(***************************************************************************)
(* The payload builder on its own (payload_builder.py): the outputs of the *)
(* three upstream steps, complete or lacking one item, the two context     *)
(* images, and the files that exist when it is called.                     *)
(***************************************************************************)
Step2Output == [roi_metrics |-> ScanFast, interval_years |-> 15004]

Step2Outputs ==
    {Step2Output, Without(Step2Output, "roi_metrics"), Without(Step2Output, "interval_years")}

Step3Outputs ==
    {[z_scores |-> ScanFast],
     [z_scores |-> ScanNormal],
     [z_scores |-> [roi \in DOMAIN ScanFast \cup {"cerebellum"} |->
                        IF roi = "cerebellum" THEN Metrics(-1000, 2000) ELSE ScanFast[roi]]],
     [z_scores |-> Without(ScanFast, "ventricles")],
     [z_scores |-> [ScanFast EXCEPT !.hippocampus = Without(@, "z_score")]],
     [z_scores |-> [ScanFast EXCEPT !.parietal_lobe = Without(@, "annual_percent_change")]],
     [scores |-> ScanFast]}

Step4Output == classify_progression(ScanFast)

Step4Outputs ==
    {Step4Output, Without(Step4Output, "progression_class"), Without(Step4Output, "score"),
     Without(Step4Output, "rationale")}

ContextImageArgs ==
    {ContextImages, Without(ContextImages, "jacobian_overlay"),
     Without(ContextImages, "t1_followup_slice")}

BuilderInit ==
    /\ step_outputs \in
         {[step2 |-> s2, step3 |-> s3, step4 |-> s4, age |-> 72, sex |-> "F",
           context_images |-> ci, files |-> fs] :
              s2 \in Step2Outputs, s3 \in Step3Outputs, s4 \in Step4Outputs,
              ci \in ContextImageArgs,
              fs \in SUBSET {ContextImages.jacobian_overlay, ContextImages.t1_followup_slice}}
    /\ strict_text = FALSE
    /\ run_payload = NoPayload
    /\ medgemma_client = "common"
    /\ pc = "building"
    /\ stage_no = 0
    /\ attempt = 0
    /\ prompt_package = NoPackage
    /\ base_prompt = ""
    /\ images = <<>>
    /\ stage = ""
    /\ model_response = ""
    /\ parsed_json = JNull
    /\ last_error = NoError
    /\ texts = <<>>
    /\ final_json = JNull
    /\ result = NoResult
    /\ error = NoError
    /\ calls = 0
    /\ hist = <<>>
    /\ log_tail = <<>>
    /\ cached_images = None
    /\ model_inputs = NoInputs
    /\ tried = <<>>

\* build_intelligence_payload stops at the first check that fails.
BuilderRaises ==
    /\ pc = "building"
    /\ BuilderError(step_outputs) # NoError
    /\ error' = BuilderError(step_outputs)
    /\ pc' = "raised"
    /\ Logs(<<>>)
    /\ UNCHANGED <<outside, args, stage_no, frame, try, texts, final_json, result, calls, hist>>

\* All four checks pass: lines 90-123 construct the payload.
BuilderReturns ==
    /\ pc = "building"
    /\ BuilderError(step_outputs) = NoError
    /\ run_payload' = build_intelligence_payload(step_outputs.step2.interval_years,
                                                 step_outputs.step3.z_scores,
                                                 step_outputs.step4, step_outputs.age,
                                                 step_outputs.sex, step_outputs.context_images)
    /\ pc' = "built"
    /\ Logs(<<>>)
    /\ UNCHANGED <<outside, medgemma_client, stage_no, frame, try, texts, final_json, result,
                   error, calls, hist>>

BuilderNext == BuilderRaises \/ BuilderReturns

BuilderSpec == BuilderInit /\ [][BuilderNext]_vars

(***************************************************************************)
(* Properties of the run.                                                  *)
(***************************************************************************)
FlagIs(report, key, b) == Has(report, key) /\ Get(report, key) = JBool(b)
Flag(report, key) == FlagIs(report, key, TRUE)

AllFailed == \A i \in 1..Len(hist) : hist[i].outcome = "failed"

IsNumber(j) == j.t \in {"int", "float"}
NumberOf(j) == IF j.t = "int" THEN j.v * Scale ELSE j.v

\* One twentieth, 0.05.
Twentieth == Scale \div 20

\* The entry has the metric nk, a number within 0.05 of x.
Carries(entry, nk, x) ==
    /\ entry.t = "dict"
    /\ Has(entry, nk)
    /\ IsNumber(Get(entry, nk))
    /\ Abs(NumberOf(Get(entry, nk)) - x) <= Twentieth

RegionsFaithful(report, payload) ==
    /\ Has(report, "roi_interpretations")
    /\ Get(report, "roi_interpretations").t = "dict"
    /\ \A roi \in {"hippocampus", "entorhinal_cortex", "temporal_lobe", "parietal_lobe",
                   "ventricles"} :
        /\ Has(Get(report, "roi_interpretations"), roi)
        /\ \A nk \in {"annual_percent_change", "z_score"} :
            Carries(Get(Get(report, "roi_interpretations"), roi), nk,
                    payload.roi_metrics[roi][nk])

ClassFaithful(report, payload) ==
    /\ Has(report, "classification")
    /\ Get(report, "classification").t = "dict"
    /\ Has(Get(report, "classification"), "class")
    /\ Has(Get(report, "classification"), "score")
    /\ Get(Get(report, "classification"), "class").t = "str"
    /\ LowerEq(Get(Get(report, "classification"), "class").v, payload.progression.class)
    /\ Get(Get(report, "classification"), "score") = JInt(payload.progression.score)

C2_BoundedAttempts ==
    /\ MAX_RETRY + 1 = 3
    /\ Len(hist) <= MAX_RETRY + 1
    /\ \A i \in 1..Len(hist) :
        /\ hist[i].attempt = i - 1
        /\ i < Len(hist) => hist[i].outcome = "failed"

\* A stage has passed at its third invocation.
C2_ThirdAttemptPassed ==
    /\ Len(hist) = 3
    /\ hist[3].outcome = "passed"
    /\ hist[1].outcome = "failed"
    /\ hist[2].outcome = "failed"

\* C3: for every payload, once stages 1-3 have passed and all three attempts
\* of stage 4 have failed, the run does not raise: it holds the fallback
\* report, with fallback_used true and the payload's class, score and
\* rationale.
C3_FallbackForEveryPayload ==
    (stage_no = 4 /\ Len(hist) = MAX_RETRY + 1 /\ AllFailed /\ pc # "validated") =>
        /\ pc \in {"postcheck", "returned"}
        /\ Flag(final_json, "fallback_used")
        /\ Has(final_json, "classification")
        /\ Get(Get(final_json, "classification"), "class") =
                JStr(run_payload.progression.class)
        /\ Get(Get(final_json, "classification"), "score") =
                JInt(run_payload.progression.score)
        /\ Get(Get(final_json, "classification"), "rationale") =
                JList([i \in 1..Len(run_payload.progression.rationale) |->
                            JStr(run_payload.progression.rationale[i])])

\* The report copies the payload: every region metric is the payload's
\* number, the classification is the payload's.
CopiesPayload(report, payload) ==
    /\ report.t = "dict"
    /\ \A key \in {"roi_interpretations", "final_narrative", "classification",
                   "confidence_level"} : Has(report, key)
    /\ Get(report, "roi_interpretations").t = "dict"
    /\ \A roi \in DOMAIN payload.roi_metrics :
        /\ Has(Get(report, "roi_interpretations"), roi)
        /\ \A nk \in {"annual_percent_change", "z_score"} :
            /\ Has(Get(Get(report, "roi_interpretations"), roi), nk)
            /\ Get(Get(Get(report, "roi_interpretations"), roi), nk) =
                    JFloat(payload.roi_metrics[roi][nk])
    /\ Get(report, "classification") = ExactClassBlock(payload)

\* C4: for a valid payload, after stages 1-3 have passed, a stage-4 response
\* that is valid JSON copying the payload (and is otherwise unobjectionable:
\* its narrative is the plain one) passes validation, and a report that
\* stage 4 returns after a validation that passed has fallback_used false,
\* repair_attempted false when it was the first response of the stage (true
\* otherwise), and region numbers within 0.05 of the payload's.
C4_ExactJsonAccepted ==
    /\ (/\ pc = "validated"
        /\ expect_json
        /\ run_payload \in ValidPayloads
        /\ CopiesPayload(parsed_json, run_payload)
        /\ Get(parsed_json, "final_narrative") = JStr(NARRATIVE))
       => last_error = NoError
    /\ (/\ pc \in {"postcheck", "returned"}
        /\ Last(hist).outcome = "passed")
       => /\ run_payload \in ValidPayloads
          /\ FlagIs(final_json, "fallback_used", FALSE)
          /\ FlagIs(final_json, "repair_attempted", Len(hist) > 1)
          /\ RegionsFaithful(final_json, run_payload)

\* A run has returned the report that the model gave at the first attempt
\* of stage 4, although the model had set the two flags itself.
C4_FirstResponseReturned ==
    /\ pc = "returned"
    /\ Len(hist) = 1
    /\ hist[1].outcome = "passed"
    /\ StrIn("\"fallback_used\": true", hist[1].accepted)
    /\ FlagIs(result.final_output, "fallback_used", FALSE)
    /\ FlagIs(result.final_output, "repair_attempted", FALSE)

\* C5: every run comes to an end (it returns or it raises) having invoked
\* the model at most 12 times, and never raises "Unexpected control flow.".
C5_Terminates ==
    /\ <>(pc \in {"returned", "raised"})
    /\ [](calls <= 12)
    /\ [](error.msg # "Unexpected control flow.")

\* A run has returned after twelve invocations.
C5_TwelveInvocations ==
    /\ pc = "returned"
    /\ calls = 12

\* C6: for a valid payload the report that deterministic_fallback builds
\* passes validate_final_json against that payload; in particular it has
\* the regions with numbers within 0.05 and the payload's classification.
C6_FallbackValidates ==
    (/\ pc = "postcheck"
     /\ AllFailed
     /\ run_payload \in ValidPayloads)
    => /\ Flag(final_json, "fallback_used")
       /\ validate_final_json(final_json, run_payload) = NoError
       /\ RegionsFaithful(final_json, run_payload)
       /\ ClassFaithful(final_json, run_payload)

\* Stage 4 has returned the fallback report of a payload whose metrics have
\* a fourth decimal and whose rationale states a number.
C6_FallbackBuilt ==
    /\ pc = "postcheck"
    /\ AllFailed
    /\ run_payload = PayloadScenario
    /\ final_json = deterministic_fallback(PayloadScenario, "", "", "")

\* C7: an invocation that raises or returns something that is no string
\* ends the run with that error at once: it is the last invocation, the
\* package is the one it was given (no repair was built), no report exists
\* and nothing is returned.
C7_FatalPropagates ==
    \A i \in 1..Len(hist) :
        hist[i].outcome = "fatal" =>
            /\ i = Len(hist)
            /\ pc = "raised"
            /\ error \in {ValueError("Model response must be string."),
                          Exc("RuntimeError", "All OOM retries failed.")}
            /\ hist[i].attempt = attempt
            /\ hist[i].repair = (prompt_package.text # base_prompt)
            /\ final_json = JNull
            /\ result.final_output = JNull

\* The model has returned a non-string at the third attempt of stage 4.
C7_NonStringAtLastAttempt ==
    /\ pc = "raised"
    /\ error = ValueError("Model response must be string.")
    /\ stage_no = 4
    /\ Len(hist) = 3
    /\ hist[3].outcome = "fatal"

\* C8: in stages 1-3 a validation failure is raised only when the third
\* attempt has failed; the error is that attempt's, the run has no report
\* and no result, and no later stage has been entered.
C8_TextStageAborts ==
    (/\ pc = "raised"
     /\ stage_no \in 1..3
     /\ hist # <<>>
     /\ Last(hist).outcome = "failed")
    => /\ Len(hist) = MAX_RETRY + 1
       /\ AllFailed
       /\ error = last_error
       /\ error # NoError
       /\ Len(texts) = stage_no - 1
       /\ final_json = JNull
       /\ result.final_output = JNull

\* Stage 2 has failed three times and the run has raised.
C8_SecondStageAborted ==
    /\ pc = "raised"
    /\ stage_no = 2
    /\ Len(hist) = 3
    /\ AllFailed
    /\ error = ValueError("Forbidden medical claim detected: alzheimer")

\* The forbidden terms, each letter in both cases.
FORBIDDEN_SPELLINGS ==
    LET terms == <<"alzheimer", "dementia", "mci", "mild cognitive impairment",
                   "diagnosis", "will develop">>
    IN  Tabulate([k \in 1..Len(terms) |->
            Tabulate([j \in 1..Len(terms[k]) |->
                        {Char(terms[k], j), UpperChar(Char(terms[k], j))}])])

\* The text has one of the forbidden terms in it, in whatever letter case.
MentionsForbidden(text) ==
    \E k \in 1..Len(FORBIDDEN_SPELLINGS) :
        \E i \in 1..(Len(text) - Len(FORBIDDEN_SPELLINGS[k]) + 1) :
            \A j \in 1..Len(FORBIDDEN_SPELLINGS[k]) :
                Char(text, i + j - 1) \in FORBIDDEN_SPELLINGS[k][j]

\* C9: at every stage a response with a forbidden term in it, in any letter
\* case, fails validation; so no text of the thinking trace and no stage-4
\* response that was accepted has one.
C9_ForbiddenTermFails ==
    /\ (pc = "validated" /\ last_error = NoError) => ~MentionsForbidden(model_response)
    /\ pc = "returned" =>
        /\ \A i \in 1..Len(texts) : ~MentionsForbidden(texts[i])
        /\ Last(hist).outcome = "passed" => ~MentionsForbidden(Last(hist).accepted)

\* A text stage has rejected a response for a forbidden term written in
\* capitals.
C9_CapitalsRejected ==
    /\ pc = "validated"
    /\ ~expect_json
    /\ model_response = "Pattern typical of ALZHEIMER disease."
    /\ last_error = ValueError("Forbidden medical claim detected: alzheimer")

\* The numbers a text states: every maximal run of digits, with the minus
\* sign before it and the decimals after it.
StartsNumber(s, i) ==
    /\ IsDigit(Char(s, i))
    /\ i = 1 \/ ~IsDigit(Char(s, i - 1))
    /\ ~(i >= 3 /\ Char(s, i - 1) = "." /\ IsDigit(Char(s, i - 2)))

NumberAt(s, i) ==
    LET n == DigitRun(s, i)
        m == IF i + n <= Len(s) /\ Char(s, i + n) = "." THEN DigitRun(s, i + n + 1) ELSE 0
        b == IF i > 1 /\ Char(s, i - 1) = "-" THEN i - 1 ELSE i
    IN  TokenFloat(SubSeq(s, b, IF m > 0 THEN i + n + m ELSE i + n - 1))

StatedInText(s) == {NumberAt(s, i) : i \in {k \in 1..Len(s) : StartsNumber(s, k)}}

RECURSIVE StatedNumbers(_)
\* The numbers a report states, as values or inside its strings.
StatedNumbers(obj) ==
    CASE obj.t = "dict" -> UNION {StatedNumbers(obj.v[i].v) : i \in 1..Len(obj.v)}
      [] obj.t = "list" -> UNION {StatedNumbers(obj.v[i]) : i \in 1..Len(obj.v)}
      [] IsNumber(obj) -> {NumberOf(obj)}
      [] obj.t = "str" -> StatedInText(obj.v)
      [] OTHER -> {}

\* The ten region metrics, the score, the interval and the numbers of the
\* rationale strings.
AllowList(payload) ==
    {payload.roi_metrics[roi][nk] :
        roi \in DOMAIN payload.roi_metrics, nk \in {"annual_percent_change", "z_score"}}
    \cup {payload.progression.score * Scale, payload.metadata.interval_years}
    \cup UNION {StatedInText(payload.progression.rationale[i]) :
                    i \in 1..Len(payload.progression.rationale)}

\* C10: validation fails whenever the parsed report states, as a value or
\* inside a string, a number more than 0.05 away from every number of the
\* allow-list.
C10_UnauthorizedNumberFails ==
    (/\ pc = "validated"
     /\ expect_json
     /\ parsed_json.t = "dict"
     /\ run_payload \in ValidPayloads
     /\ \E n \in StatedNumbers(parsed_json) :
            \A a \in AllowList(run_payload) : Abs(n - a) > Twentieth)
    => last_error # NoError

\* The report has the four keys, the payload's classification, the plain
\* narrative, and in every region of the payload two numbers.
StatesRegionNumbers(report, payload) ==
    /\ report.t = "dict"
    /\ \A key \in {"roi_interpretations", "final_narrative", "classification",
                   "confidence_level"} : Has(report, key)
    /\ Get(report, "final_narrative") = JStr(NARRATIVE)
    /\ Get(report, "classification") = ExactClassBlock(payload)
    /\ Get(report, "roi_interpretations").t = "dict"
    /\ \A roi \in DOMAIN payload.roi_metrics :
        /\ Has(Get(report, "roi_interpretations"), roi)
        /\ Get(Get(report, "roi_interpretations"), roi).t = "dict"
        /\ \A nk \in {"annual_percent_change", "z_score"} :
            /\ Has(Get(Get(report, "roi_interpretations"), roi), nk)
            /\ IsNumber(Get(Get(Get(report, "roi_interpretations"), roi), nk))

\* Every number the report states is within 0.05 of an allow-list number.
AllAuthorized(report, payload) ==
    \A n \in StatedNumbers(report) :
        \E a \in AllowList(payload) : Abs(n - a) <= Twentieth

\* C11: the tolerance is absolute and inclusive at 0.05.  Of a response
\* that is otherwise unobjectionable (no forbidden term, the payload's
\* classification, the plain narrative), validation passes exactly when
\* every region value v has |v - p| <= 0.05 for the payload's p, percent
\* change and z-score alike, and every stated number x has |x - a| <= 0.05
\* for some allow-list a; a value exactly 0.05 away passes.
C11_InclusiveTolerance ==
    (/\ pc = "validated"
     /\ expect_json
     /\ run_payload \in ValidPayloads
     /\ ~MentionsForbidden(model_response)
     /\ StatesRegionNumbers(parsed_json, run_payload))
    => (last_error = NoError <=>
            /\ RegionsFaithful(parsed_json, run_payload)
            /\ AllAuthorized(parsed_json, run_payload))

\* C12: validation passes only if the classification has class, score and
\* rationale, the class is the payload's up to letter case and the score is
\* the payload's as an integer; and a report with a region value more than
\* 0.05 away from the payload's (such as a z-score of -2.9 for -2.3) is
\* rejected.
C12_ClassificationChecked ==
    (/\ pc = "validated"
     /\ expect_json
     /\ run_payload \in ValidPayloads)
    => /\ last_error = NoError =>
            /\ parsed_json.t = "dict"
            /\ Has(parsed_json, "classification")
            /\ Get(parsed_json, "classification").t = "dict"
            /\ \A key \in {"class", "score", "rationale"} :
                    Has(Get(parsed_json, "classification"), key)
            /\ Get(Get(parsed_json, "classification"), "class").t = "str"
            /\ LowerEq(Get(Get(parsed_json, "classification"), "class").v,
                       run_payload.progression.class)
            /\ IsNumber(Get(Get(parsed_json, "classification"), "score"))
            /\ NumberOf(Get(Get(parsed_json, "classification"), "score")) \div Scale
                    = run_payload.progression.score
       /\ (StatesRegionNumbers(parsed_json, run_payload)
            /\ ~RegionsFaithful(parsed_json, run_payload))
          => last_error # NoError

\* The report with class 'fast progressor' and score 5 has passed against
\* the payload with 'Fast Progressor' and 5.
C12_LowerCaseClassPassed ==
    /\ pc = "validated"
    /\ expect_json
    /\ last_error = NoError
    /\ run_payload.progression.class = "Fast Progressor"
    /\ run_payload.progression.score = 5
    /\ Get(parsed_json, "classification")
            = ClassBlock("fast progressor", JInt(5), run_payload.progression.rationale)

C14_FlagsReflectHistory ==
    pc \in {"postcheck", "returned"} =>
        LET report == IF pc = "returned" THEN result.final_output ELSE final_json
            failed == {i \in 1..Len(hist) : hist[i].outcome = "failed"}
        IN  /\ stage_no = 4
            /\ FlagIs(report, "fallback_used",
                      AllFailed /\ Len(hist) = MAX_RETRY + 1)
            /\ FlagIs(report, "repair_attempted", failed # {})
            /\ Flag(report, "fallback_used") => Len(hist) = 3
            /\ Last(hist).outcome = "passed" =>
                    /\ FlagIs(report, "repair_attempted", Last(hist).attempt > 0)
                    /\ FlagIs(report, "fallback_used", FALSE)

\* A run has returned the report that the model gave at the second attempt
\* of stage 4, in which the model had written fallback_used true itself.
C14_RepairedReportReturned ==
    /\ pc = "returned"
    /\ Len(hist) = 2
    /\ hist[1].outcome = "failed"
    /\ hist[2].outcome = "passed"
    /\ StrIn("\"fallback_used\": true", hist[2].accepted)
    /\ FlagIs(result.final_output, "fallback_used", FALSE)
    /\ FlagIs(result.final_output, "repair_attempted", TRUE)

\* The three requirements that close a repair prompt.
FIXED_REQUIREMENTS ==
    "\n\nREQUIREMENTS FOR THE NEXT RESPONSE (NON-NEGOTIABLE):\n"
    \o "1) Return ONLY valid JSON.\n"
    \o "2) Numeric values must match the provided payload EXACTLY.\n"
    \o "3) Do NOT include forbidden medical claims.\n"

\* C15: the package of attempt 0 has the stage's original prompt text, and
\* whenever a failed attempt n - 1 is followed by attempt n, the text of the
\* new package is the stage's original text, then the failure reason of
\* attempt n - 1 as str() gives it, then the three fixed requirements: the
\* repair is built from the original text, never from an earlier repair.
C15_RepairFromOriginal ==
    [][/\ (pc' = "calling" /\ attempt' = 0) =>
            /\ prompt_package'.text = Package(stage_no', texts').text
            /\ base_prompt' = prompt_package'.text
       /\ (pc = "validated" /\ pc' = "calling" /\ stage_no' = stage_no) =>
            /\ attempt' = attempt + 1
            /\ base_prompt' = base_prompt
            /\ base_prompt = Package(stage_no, texts).text
            /\ prompt_package'.text =
                    base_prompt \o "\n\nVALIDATION ERROR:\n"
                    \o (IF last_error.type = "KeyError"
                        THEN "'" \o last_error.msg \o "'" ELSE last_error.msg)
                    \o FIXED_REQUIREMENTS]_vars

\* The third attempt of stage 2 is about to be made, with the prompt of the
\* stage followed by one failure reason and the requirements.
C15_SecondRepairBuilt ==
    /\ pc = "calling"
    /\ stage_no = 2
    /\ attempt = 2
    /\ Len(hist) = 2
    /\ prompt_package.text =
            Package(2, texts).text
            \o "\n\nVALIDATION ERROR:\nForbidden medical claim detected: alzheimer"
            \o FIXED_REQUIREMENTS

\* C16: at every attempt of a stage the package has the images and the
\* stage tag of the stage's initial package, and a repair changes nothing
\* of the package but its text.
C16_RepairKeepsImagesAndStage ==
    [][/\ pc' \in {"calling", "validated"} =>
            /\ prompt_package'.images = Package(stage_no', texts').images
            /\ prompt_package'.stage = Package(stage_no', texts').stage
       /\ (pc = "validated" /\ pc' = "calling" /\ stage_no' = stage_no) =>
            /\ prompt_package'.images = prompt_package.images
            /\ prompt_package'.stage = prompt_package.stage
            /\ DOMAIN prompt_package' = DOMAIN prompt_package]_vars

\* The third attempt of the multimodal stage is about to be made with a
\* repaired text and the images of the payload.
C16_RepairedPackageWithImages ==
    /\ pc = "calling"
    /\ stage_no = 2
    /\ attempt = 2
    /\ prompt_package.text # base_prompt
    /\ prompt_package.images # <<>>
    /\ prompt_package.images = Package(2, texts).images
    /\ prompt_package.stage = Package(2, texts).stage

\* The mismatch terms, each letter in both cases.
MISMATCH_SPELLINGS ==
    LET terms == <<"discrepancy", "inconsistent", "contradict", "mismatch",
                   "does not align", "spatial conflict", "anatomical divergence">>
    IN  Tabulate([k \in 1..Len(terms) |->
            Tabulate([j \in 1..Len(terms[k]) |->
                        {Char(terms[k], j), UpperChar(Char(terms[k], j))}])])

\* The text has one of the mismatch terms in it, in whatever letter case.
ReportsMismatch(text) ==
    \E k \in 1..Len(MISMATCH_SPELLINGS) :
        \E i \in 1..(Len(text) - Len(MISMATCH_SPELLINGS[k]) + 1) :
            \A j \in 1..Len(MISMATCH_SPELLINGS[k]) :
                Char(text, i + j - 1) \in MISMATCH_SPELLINGS[k][j]

\* C17: when the run returns the report of stage 4 (the model's or the
\* fallback's), then, if the validated text of stage 2 has a mismatch term
\* in any letter case and the report's warning_flag is null or absent, the
\* final report has warning_flag 'Visual-Numeric Mismatch' and
\* confidence_level 'Low (Visual Mismatch)' and is otherwise the report of
\* stage 4; if not, the final report is the report of stage 4 unchanged.
C17_MismatchDowngrade ==
    [][(pc = "postcheck" /\ pc' = "returned") =>
        IF /\ ReportsMismatch(texts[2])
           /\ ~Has(final_json, "warning_flag") \/ Get(final_json, "warning_flag") = JNull
        THEN /\ Get(result'.final_output, "warning_flag") = JStr("Visual-Numeric Mismatch")
             /\ Get(result'.final_output, "confidence_level") = JStr("Low (Visual Mismatch)")
             /\ result'.warning_flag = JStr("Visual-Numeric Mismatch")
             /\ result'.confidence_level = JStr("Low (Visual Mismatch)")
             /\ \A i \in 1..Len(final_json.v) :
                    final_json.v[i].k \notin {"warning_flag", "confidence_level"} =>
                        Get(result'.final_output, final_json.v[i].k) = final_json.v[i].v
        ELSE result'.final_output = final_json]_vars

\* A run whose stage 2 wrote CONTRADICT in capitals has returned the
\* fallback report with the warning and the lowered confidence.
C17_FallbackDowngraded ==
    /\ pc = "returned"
    /\ texts[2] = "Overlay and metrics CONTRADICT each other."
    /\ Flag(result.final_output, "fallback_used")
    /\ Get(result.final_output, "warning_flag") = JStr("Visual-Numeric Mismatch")
    /\ Get(result.final_output, "confidence_level") = JStr("Low (Visual Mismatch)")

\* x is p rounded to three decimals: a whole number of thousandths, at most
\* half a thousandth away.
RoundedToThousandths(x, p) ==
    /\ x % (Scale \div 1000) = 0
    /\ 2 * Abs(x - p) <= Scale \div 1000

\* C18: when the fallback builds the report, for a payload with the five
\* regions, no model invocation is made and the report has, for each
\* region, the payload's two values rounded to three decimals and an
\* interpretation string that states those two numbers; the payload's
\* class, score and rationale; the fixed disclosure narrative;
\* confidence_level 'Low (fallback)', warning_flag null and fallback_used
\* true.
C18_FallbackReport ==
    [][(pc = "validated" /\ pc' = "postcheck" /\ last_error # NoError) =>
        /\ calls' = calls
        /\ \A roi \in {"hippocampus", "entorhinal_cortex", "temporal_lobe",
                       "parietal_lobe", "ventricles"} :
            LET entry == Get(Get(final_json', "roi_interpretations"), roi)
            IN  /\ \A nk \in {"annual_percent_change", "z_score"} :
                    /\ Get(entry, nk).t = "float"
                    /\ RoundedToThousandths(Get(entry, nk).v, run_payload.roi_metrics[roi][nk])
                /\ Get(entry, "interpretation").t = "str"
                /\ StatedInText(Get(entry, "interpretation").v)
                        = {Get(entry, "annual_percent_change").v, Get(entry, "z_score").v}
        /\ Get(final_json', "classification")
                = JDict(<<Item("class", JStr(run_payload.progression.class)),
                          Item("score", JInt(run_payload.progression.score)),
                          Item("rationale",
                               JList([i \in 1..Len(run_payload.progression.rationale) |->
                                        JStr(run_payload.progression.rationale[i])]))>>)
        /\ Get(final_json', "final_narrative")
                = JStr("Deterministic fallback narrative synthesized from validated "
                       \o "numeric payload. ROI interpretations produced "
                       \o "programmatically to ensure numeric integrity.")
        /\ Get(final_json', "confidence_level") = JStr("Low (fallback)")
        /\ Get(final_json', "warning_flag") = JNull
        /\ Flag(final_json', "fallback_used")]_vars

\* The fallback has built the report of the payload whose entorhinal
\* values have four decimals, -3.1234 and -1.8766.
C18_FourDecimalsRounded ==
    /\ pc = "postcheck"
    /\ AllFailed
    /\ run_payload.roi_metrics.entorhinal_cortex.annual_percent_change = -31234
    /\ Get(Get(Get(final_json, "roi_interpretations"), "entorhinal_cortex"),
           "annual_percent_change") = JFloat(-31230)
    /\ Get(Get(Get(final_json, "roi_interpretations"), "entorhinal_cortex"),
           "z_score") = JFloat(-18770)

\* C19: the fallback report is a function of the payload alone: the report
\* that stage 4 returns after its attempts have all failed is the one that
\* the fallback builds for the payload whatever the texts of stages 1-3.
C19_FallbackOfPayloadOnly ==
    (pc = "postcheck" /\ AllFailed) =>
        /\ Cardinality(FALLBACKS[pid]) > 1
        /\ \A other \in FALLBACKS[pid] : other.outcome.report = final_json

\* The fallback has built the report in a run whose stage 2 reported a
\* mismatch and whose stage 3 did not.
C19_FallbackAfterMismatchText ==
    /\ pc = "postcheck"
    /\ AllFailed
    /\ texts[2] = "Overlay and metrics CONTRADICT each other."
    /\ texts[3] = "Hippocampal loss exceeds the age norm."
    /\ final_json = deterministic_fallback(run_payload, "a", "b", "c")

\* The payload has the four top-level keys and, for each of the five
\* regions, both metrics.
HasEveryRequiredKey(payload) ==
    /\ \A key \in {"metadata", "roi_metrics", "progression", "context_images"} :
            key \in DOMAIN payload
    /\ \A roi \in {"hippocampus", "entorhinal_cortex", "temporal_lobe", "parietal_lobe",
                   "ventricles"} :
        /\ roi \in DOMAIN payload.roi_metrics
        /\ \A nk \in {"annual_percent_change", "z_score"} :
                nk \in DOMAIN payload.roi_metrics[roi]

\* C20: a run on a payload that lacks a required key (one of metadata,
\* roi_metrics, progression, context_images, one of the five regions, or a
\* metric of a region) raises an error before the first model invocation:
\* the model is never invoked in such a run, and the run returns nothing.
C20_IncompletePayloadRejected ==
    ~HasEveryRequiredKey(run_payload) =>
        /\ calls = 0
        /\ pc # "returned"

\* C21: build_intelligence_payload either raises, and hands out nothing, or
\* returns a payload whose roi_metrics has exactly the five regions, each
\* with annual_percent_change and z_score, whose progression has class,
\* score and rationale, whose metadata has age, sex and interval_years, and
\* whose two context image paths existed when it was built; what it returns
\* passes validate_payload.
C21_BuiltPayloadWellFormed ==
    /\ pc \in {"building", "built", "raised"}
    /\ pc # "built" => run_payload = NoPayload
    /\ pc = "raised" => error # NoError
    /\ pc = "built" =>
        /\ DOMAIN run_payload.roi_metrics =
              {"hippocampus", "entorhinal_cortex", "temporal_lobe", "parietal_lobe",
               "ventricles"}
        /\ \A roi \in DOMAIN run_payload.roi_metrics :
              DOMAIN run_payload.roi_metrics[roi] = {"annual_percent_change", "z_score"}
        /\ DOMAIN run_payload.progression = {"class", "score", "rationale"}
        /\ DOMAIN run_payload.metadata = {"age", "sex", "interval_years"}
        /\ DOMAIN run_payload.context_images = {"jacobian_overlay", "t1_followup_slice"}
        /\ \A k \in DOMAIN run_payload.context_images :
              run_payload.context_images[k] \in step_outputs.files
        /\ validate_payload(run_payload) = NoError

\* The builder has returned a payload for a step 3 output that carries a
\* sixth region.
C21_BuiltFromSixRegions ==
    /\ pc = "built"
    /\ "cerebellum" \in DOMAIN step_outputs.step3.z_scores


\* C22: the model is invoked in stage order.  The stage number only ever
\* goes up by one, and it does so either at the start of the run or when the
\* response of the current stage has been validated, which is then kept as
\* that stage's text; an invocation belongs to the stage whose predecessors
\* all have a kept text; the package a stage starts with is built from the
\* payload and the kept texts (stage 2 from that of stage 1, stage 3 from
\* those of stages 1 and 2, stage 4 from that of stage 3), and the kept
\* texts change at no other step.
C22_StagesInOrder ==
    [][/\ stage_no' \in {stage_no, stage_no + 1}
       /\ stage_no' = stage_no => texts' = texts
       /\ stage_no' # stage_no =>
            /\ \/ stage_no' = 1 /\ texts' = <<>>
               \/ /\ last_error = NoError
                  /\ check_forbidden_terms(model_response) = NoError
                  /\ texts' = Append(texts, model_response)
            /\ attempt' = 0
            /\ prompt_package' =
                 CASE stage_no' = 1 -> build_numeric_prompt(run_payload)
                   [] stage_no' = 2 -> build_multimodal_prompt(run_payload, texts'[1])
                   [] stage_no' = 3 -> build_verification_prompt(run_payload, texts'[1], texts'[2])
                   [] stage_no' = 4 -> build_simplification_prompt(run_payload, texts'[3])
       /\ calls' # calls =>
            /\ stage_no' = stage_no
            /\ stage_no \in 1..4
            /\ Len(texts) = stage_no - 1
      ]_vars

\* The first response of stage 4 has arrived in a run in which the model was
\* invoked more than four times: an earlier stage had a response rejected.
C22_FourthStageAfterRejection ==
    /\ stage_no = 4
    /\ attempt = 0
    /\ pc = "validated"
    /\ calls > 4


\* C23: at stage 4, for a complete payload, whatever the try block makes of
\* a string the model returned, the executor does not raise: a response
\* that passes goes on as the report; one that fails, with whatever kind of
\* exception, is followed by another attempt while attempts are left and by
\* the fallback report on the last one.
C23_StageFourAlwaysReports ==
    [][(run_payload \in ValidPayloads /\ stage_no = 4 /\ pc = "validated") =>
            /\ error' = NoError
            /\ IF last_error = NoError
               THEN pc' = "postcheck" /\ FlagIs(final_json', "fallback_used", FALSE)
               ELSE IF attempt < MAX_RETRY
               THEN pc' = "calling" /\ attempt' = attempt + 1 /\ final_json' = JNull
               ELSE pc' = "postcheck" /\ FlagIs(final_json', "fallback_used", TRUE)
      ]_vars

\* The last attempt of stage 4 has ended in an exception that is no
\* ValueError.
C23_LastAttemptTypeError ==
    /\ run_payload \in ValidPayloads
    /\ stage_no = 4
    /\ pc = "validated"
    /\ attempt = MAX_RETRY
    /\ last_error.type \notin {"", "ValueError"}


\* The first balanced {...} piece of text: from the first "{" to the first
\* "}" at which as many braces have closed as have opened; "" when there is
\* no "{" or the braces never balance.
FirstBalanced(text) ==
    LET from == Find(text, "{")
        tail == SubSeq(text, from, Len(text))
        stop == FirstIdx(Len(tail), LAMBDA i : BraceDepth(tail, i) = 0)
    IN  IF from = 0 \/ stop = 0 THEN "" ELSE SubSeq(tail, 1, stop)

\* C24: when the stage-4 response does not parse as it stands, what the
\* executor parses is the first balanced {...} piece of the response, and
\* nothing when there is no such piece or when the piece does not parse.
\* (Checked of the responses with no brace before the report.)
C24_FirstBalancedParsed ==
    (stage_no = 4 /\ pc = "validated") =>
        \A i \in 1..Len(JsonResponses(run_payload)) :
            \E r \in {JsonResponses(run_payload)[i]} :
                (/\ ResponseText(r) = model_response
                 /\ Find(r.pre, "{") = 0
                 /\ ~LoadsOk(model_response, r)) =>
                    parsed_json =
                        IF /\ FirstBalanced(model_response) # ""
                           /\ LoadsOk(FirstBalanced(model_response), r)
                        THEN Loads(FirstBalanced(model_response), r)
                        ELSE JNull


\* The string forms of both numbers of each of the five regions occur in
\* text.
StatesEveryNumber(text) ==
    \A roi \in {"hippocampus", "entorhinal_cortex", "temporal_lobe", "parietal_lobe",
                "ventricles"} :
        /\ roi \in DOMAIN run_payload.roi_metrics
        /\ StrIn(FloatStr(run_payload.roi_metrics[roi].annual_percent_change), text)
        /\ StrIn(FloatStr(run_payload.roi_metrics[roi].z_score), text)

\* C25: at a text stage a response free of forbidden terms is accepted, and
\* returned by the executor at the next step, exactly when strict is unset
\* or the response states both numbers of each of the five regions; any
\* other is not returned.
C25_TextModeAcceptance ==
    [][(pc = "validated" /\ ~expect_json /\ ~MentionsForbidden(model_response)) =>
            IF ~strict_text \/ StatesEveryNumber(model_response)
            THEN /\ last_error = NoError
                 /\ pc' = "stage_returned"
                 /\ texts' = Append(texts, model_response)
                 /\ hist = hist' /\ Last(hist).attempt = attempt
            ELSE /\ last_error # NoError
                 /\ pc' # "stage_returned"
                 /\ texts' = texts
      ]_vars

\* With strict set, a response free of forbidden terms that states every
\* number but one z-score has been rejected.
C25_StrictRejectsMissingZ ==
    /\ strict_text
    /\ pc = "validated"
    /\ last_error.type = "ValueError"
    /\ run_payload \in ValidPayloads
    /\ ~MentionsForbidden(model_response)
    /\ StrIn(FloatStr(run_payload.roi_metrics["ventricles"].annual_percent_change),
             model_response)

\* C26: every model invocation that comes back with a value puts two entries
\* at the end of the audit log, the first naming the stage and the attempt,
\* the second holding the raw output; and the step that deals with a
\* response that went through the try block starts by logging the outcome
\* under the stage's name: passed, or failed with the reason.
C26_EveryInvocationLogged ==
    [][/\ (calls' # calls /\ ~(pc' = "raised" /\ error'.type = "RuntimeError")) =>
            /\ Len(log_tail') = 2
            /\ log_tail'[1] = [level |-> "info", stage |-> stage_no,
                               msg |-> "Attempt " \o ToString(attempt + 1)]
            /\ log_tail'[2] = [level |-> "debug", stage |-> stage_no,
                               msg |-> "raw output:\n" \o model_response']
       /\ pc = "validated" =>
            /\ Len(log_tail') >= 1
            /\ log_tail'[1].stage = stage_no
            /\ log_tail'[1].msg =
                 IF last_error # NoError
                 THEN "validation failed: " \o StrOfExc(last_error)
                 ELSE IF stage_no = 4 THEN "JSON passed validation."
                 ELSE "passed validation (non-JSON)."
      ]_vars


\* C27: the class check that the sequencer repeats after stage 4 never
\* fails: the run does not raise "Final JSON classification mismatch AFTER
\* repair.", because a report that comes out of stage 4 without the fallback
\* carries the payload's class, letter case aside.
C27_RecheckNeverFails ==
    /\ ~(pc = "raised" /\ error.msg = "Final JSON classification mismatch AFTER repair.")
    /\ (pc = "postcheck" /\ NotFallback(final_json)) =>
            LowerEq(Get(Get(final_json, "classification"), "class").v,
                    run_payload.progression.class)

\* The run has returned a report of the model whose class is the payload's
\* in other letters.
C27_LowerCaseClassReturned ==
    /\ pc = "returned"
    /\ NotFallback(result.final_output)
    /\ Get(Get(result.final_output, "classification"), "class").v
          # run_payload.progression.class


\* C28: no step of a run changes the payload, whether the run goes on,
\* returns or raises; what a step after stage 4 changes is the report.
C28_PayloadUnchanged ==
    [][/\ run_payload' = run_payload
       /\ (pc = "postcheck" /\ pc' = "returned") => result'.final_output = final_json'
      ]_vars

\* The run has returned the fallback report, marked by the sequencer with
\* the mismatch that stage 2 reported, for the payload with four-decimal
\* numbers, which the fallback rounds in its report.
C28_ReturnedAfterFallbackAndDowngrade ==
    /\ pc = "returned"
    /\ FlagIs(result.final_output, "fallback_used", TRUE)
    /\ result.warning_flag = JStr("Visual-Numeric Mismatch")
    /\ run_payload.roi_metrics["entorhinal_cortex"].annual_percent_change % 10 # 0


\* C29: in every generate call on the shared client the model is given the
\* images opened from exactly the paths its package lists, and none when the
\* package lists none.
C29_ImagesOfThePackage ==
    pc = "generating" =>
        /\ prompt_package.images = <<>> => model_inputs.images = None
        /\ prompt_package.images # <<>> =>
            /\ Len(model_inputs.images) = Len(prompt_package.images)
            /\ \A i \in 1..Len(prompt_package.images) :
                  model_inputs.images[i].opened_from = prompt_package.images[i]

\* C30: within one generate call at most five budgets are tried, those of
\* the list in its order; each one after the first is lower than the one
\* before it; and generate raises RuntimeError only when five have been
\* tried.
C30_BudgetsDescend ==
    /\ Len(tried) <= 5
    /\ \A i \in 1..Len(tried) : tried[i] = Budgets(prompt_package.stage)[i]
    /\ \A i \in 2..Len(tried) : tried[i] < tried[i - 1]
    /\ error.type = "RuntimeError" => Len(tried) = 5


=============================================================================
